---- MODULE Spec2Model ----
(***************************************************************************)
(* Verification model of the hydrological core of go-spatial:              *)
(*   - the grid-cell priority queue (tools.PQueue),                        *)
(*   - priority-flood depression filling and breaching,                    *)
(*   - D8 and FD8 flow accumulation (sequential and parallel).             *)
(*                                                                         *)
(* Elevations are held as integers counted in sub-units: one priority-key  *)
(* unit (1/elevMultiplier in the source) is Scale sub-units, so that the   *)
(* truncation int64(z*elevMultiplier) is a real truncation in the model.   *)
(***************************************************************************)
EXTENDS Integers, Sequences, FiniteSets, TLC

(* ------------------------------ bounds -------------------------------- *)
Rows == 5
Cols == 3
MaxElev == 2
MaxOff == 2
Scale == 2
NoData == -32768
MaxPushes == 4
MaxKey == 1
FRows == 3
FCols == 2
FMaxElev == 2
NumCPUs == 2
LibMaxDim == 2
LibReach == 5
PartMaxRows == 9
PartMaxCPUs == 4
BoxMaxRows == 3
BoxMaxCols == 2
BoxMaxElev == 1
MaxRadius == 2
MedRows == 4
MedCols == 2
minNeighbourhood == 1
maxNeighbourhood == 2
neighbourhoodStep == 1
SaveRows == 2
SaveCols == 2
WideCols == 512
MaxItems == 4
MaxPriority == 3
WideDecimals == 126
MaxBreachLength == 2
BreachDepthLimit == 50

(* ------------------------- program constants -------------------------- *)
TIE_MULT == 100000
\* bufio.MaxScanTokenSize, the buffer limit of a bufio.Scanner.
MaxScanTokenSize == 65536
\* math.Inf(1), as a number above every elevation of the model.
POS_INF == 1000000000
STREAM_TIE_MULT == 10000
\* The non-stream base 10000000000000, in units of STREAM_TIE_MULT.
STREAM_BASE_Q == 1000000000
\* math.MaxFloat64, as a number above every depth of the model.
MaxFloat64 == 1000000000
\* math.MaxInt32
MaxInt32 == 2147483647
\* structures.PQType
MAXPQ == 0
MINPQ == 1

dX == <<1, 1, 1, 0, -1, -1, -1, 0>>
dY == <<-1, 0, 1, 1, 1, 0, -1, -1>>
\* Links that point away from the popped cell.
backLinkForward == <<1, 2, 3, 4, 5, 6, 7, 8>>
backLink == <<5, 6, 7, 8, 1, 2, 3, 4>>

(* ------------------------------- grids -------------------------------- *)
Cells == (0 .. Rows - 1) \X (0 .. Cols - 1)
PaddedCells == (0 .. Rows + 1) \X (0 .. Cols + 1)
numCellsTotalOneMore == Rows * Cols + 1
numCellsTotal == Rows * Cols
\* The elevation steps of the input DEMs, in sub-units: one below and one
\* above the breaching slope increment.
ElevSteps == {3, 30}
Elevations(step) == {l * step : l \in 0 .. MaxElev}

InGrid(row, col) == row >= 0 /\ row < Rows /\ col >= 0 /\ col < Cols

\* Raster.Value with reflectAtBoundaries off: out-of-range reads give nodata.
Value(g, row, col) == IF InGrid(row, col) THEN g[<<row, col>>] ELSE NoData

\* Raster.SetValue: out-of-range writes are ignored.
SetValue(g, row, col, v) ==
  IF InGrid(row, col) THEN [g EXCEPT ![<<row, col>>] = v] ELSE g

\* Go's int64(x) of a quotient: truncation toward zero.
TruncDiv(a, b) == IF a >= 0 THEN a \div b ELSE -((-a) \div b)

\* An int64 priority key q * m + r (0 <= r < m, m the tie multiplier of the
\* running tool) is held as the pair (q, r); the order of the pairs is the
\* order of the integers.
Key(q, r) == [q |-> q, r |-> r]
KeyGT(a, b) == a.q > b.q \/ (a.q = b.q /\ a.r > b.r)
KeyLE(a, b) == ~KeyGT(a, b)

\* A key that leaves the flat index out.
PriorityNoFlat(z, n) == Key(TruncDiv(z, Scale), 0)

\* int64(z*elevMultiplier)*100000 + (int64(n) % 100000), z in sub-units.
Priority(z, n) == Key(TruncDiv(z, Scale), n % TIE_MULT)

(* --------------------- tools.PQueue (binary heap) --------------------- *)
\* items[k] is the Go slot k; the nil slot 0 is not represented.
newGridCell(r, c, f) == [row |-> r, column |-> c, flatIndex |-> f]
newItem(value, priority, seq) ==
  [value |-> value, priority |-> priority, seq |-> seq]
NewPQueue == [items |-> <<>>, elemsCount |-> 0]

swap(items, i, j) == [items EXCEPT ![i] = items[j], ![j] = items[i]]

RECURSIVE swim(_, _)
swim(items, k) ==
  IF k > 1 /\ KeyGT(items[k \div 2].priority, items[k].priority)
    THEN swim(swap(items, k \div 2, k), k \div 2)
    ELSE items

\* A sink that never looks at the right child.
RECURSIVE sinkLeftOnly(_, _, _)
sinkLeftOnly(items, k, elemsCount) ==
  IF 2 * k <= elemsCount
    THEN LET j == 2 * k
         IN  IF ~KeyGT(items[k].priority, items[j].priority)
               THEN items
               ELSE sinkLeftOnly(swap(items, k, j), j, elemsCount)
    ELSE items

RECURSIVE sink(_, _, _)
sink(items, k, elemsCount) ==
  IF 2 * k <= elemsCount
    THEN LET j0 == 2 * k
             j == IF j0 < elemsCount /\ KeyGT(items[j0].priority, items[j0 + 1].priority)
                    THEN j0 + 1 ELSE j0
         IN  IF ~KeyGT(items[k].priority, items[j].priority)
               THEN items
               ELSE sink(swap(items, k, j), j, elemsCount)
    ELSE items

\* Push: append, count, swim.  seq is a ghost enqueue number.
Push(q, value, priority, seq) ==
  LET n == q.elemsCount + 1
  IN  [items |-> swim(Append(q.items, newItem(value, priority, seq)), n),
       elemsCount |-> n]

\* Pop: the item in slot 1, and the queue after swap, cut and sink.
PopItem(q) == q.items[1]
Pop(q) ==
  LET n == q.elemsCount
      cut == SubSeq(swap(q.items, 1, n), 1, n - 1)
  IN  [items |-> sink(cut, 1, n - 1), elemsCount |-> n - 1]

HeldItems(q) == {q.items[i] : i \in 1 .. q.elemsCount}

(* ------------------------------- state -------------------------------- *)
VARIABLES
  tool,            \* which program the behaviour runs
  pc,              \* position of the run: "init", "loop", "done", "panic"
  dem,             \* input DEM
  fixFlats,        \* FillDepressions.fixFlats
  pq,              \* the priority queue
  output,          \* rout (fill) / output (breach), over padded cells
  inQueue,         \* over padded cells
  pits,            \* breaching: interior pits, over padded cells
  flowdir,         \* breaching: backlink direction 1..8, 0 for a root
  numPits,
  numPitsSolved,
  streams,         \* stream-aware breaching: the stream mask
  numSolvedCells,
  pushCount,       \* ghost: number of pushes so far
  popLog,          \* ghost: items popped so far, in order
  heldAtPop,       \* ghost: items held just before the last pop
  numInflowing,    \* flow accumulation: inflow count of each cell
  fq,              \* D8: the FIFO; FD8: the queue group, one FIFO per worker
  outputData,      \* the accumulation grid (rout in D8)
  wk,              \* parallel FD8: each worker's position and locals
  pushes,          \* ghost: number of times each cell was pushed
  popOrder,        \* ghost: the cells popped so far, in order
  poppedBy,        \* ghost: for each cell, the workers that popped it
  access,          \* ghost: the (worker, FIFO) pairs of all queue accesses
  call,            \* library call: the operation and its arguments
  ret,             \* library call: what it returned
  med,             \* MaximumElevationDeviation.Run: its arrays and shared locals
  files,           \* the file system: the lines of each file that exists
  rd,              \* the rasterData object of a save and reload
  bd,              \* the BreachDepressions tool object: its fields
  post             \* BreachDepressions.Run: needsFilling and the flood order

floodVars == <<dem, fixFlats, output, inQueue, pits, flowdir, numPits,
               numPitsSolved, streams, numSolvedCells>>
flowVars == <<numInflowing, fq, outputData, wk, pushes, popOrder, poppedBy,
              access>>
restVars == <<call, ret, med, files, rd, bd, post>>
vars == <<tool, pc, pq, pushCount, popLog, heldAtPop, floodVars, flowVars,
          restVars>>

\* The library-call and deviation state of a run of another program.
RestUnused ==
  /\ call = <<>> /\ ret = <<>> /\ med = <<>> /\ files = <<>> /\ rd = <<>>
  /\ bd = <<>> /\ post = <<>>

\* The flow-accumulation state of a run of another program.
FlowUnused ==
  /\ numInflowing = <<>> /\ fq = <<>> /\ outputData = <<>>
  /\ wk = <<>> /\ pushes = <<>> /\ popOrder = <<>> /\ poppedBy = <<>>
  /\ access = {}

\* The input DEMs: a plateau at any one elevation with at most MaxOff cells
\* at other elevations (pits, peaks, notches and two-cell depressions).
OffSets == {S \in SUBSET Cells : Cardinality(S) <= MaxOff}
PlateauDEM(base, S, f) == [c \in Cells |-> IF c \in S THEN f[c] ELSE base]
PlateauDEMs(step, base) ==
  UNION {{PlateauDEM(base, S, f) : f \in [S -> Elevations(step) \ {base}]}
         : S \in OffSets}
DEMs ==
  UNION {UNION {PlateauDEMs(s, b) : b \in Elevations(s)} : s \in ElevSteps}

\* The 3x3 DEM [[10,10,10],[10,1,10],[10,10,10]] in sub-units: the
\* elevation range 9 has one digit, so elevMultiplier = 10^(8-1).  The
\* raster is held in rows 1 .. 3 of the grid between two rows of nodata,
\* which every read treats as it treats the cells off the raster.
TrivialPitMultiplier == 10000000
TrivialPitDEM ==
  [c \in Cells |->
     IF c[1] \in {0, Rows - 1} THEN NoData
     ELSE IF c = <<2, 1>> THEN 1 * TrivialPitMultiplier * Scale
     ELSE 10 * TrivialPitMultiplier * Scale]
\* A DEM with a trench of three cells at elevation 0 running in from the bottom
\* edge through a surface three steps high: filling raises the trench cell
\* by cell, each from the one before it.
FlatChainDEM ==
  [c \in Cells |-> IF c \in {<<2, 1>>, <<3, 1>>, <<4, 1>>} THEN 0 ELSE 3 * MaxElev]

EmptyGrid(v) == [c \in PaddedCells |-> v]

(* -------------------- SpecPQ: the queue on its own --------------------- *)
InitPQ ==
  /\ RestUnused
  /\ tool = "pq" /\ pc = "loop"
  /\ dem = [c \in Cells |-> 0] /\ fixFlats = FALSE
  /\ streams = [c \in Cells |-> 0]
  /\ pq = NewPQueue
  /\ output = EmptyGrid(NoData) /\ inQueue = EmptyGrid(FALSE)
  /\ pits = EmptyGrid(FALSE) /\ flowdir = EmptyGrid(0)
  /\ numPits = 0 /\ numPitsSolved = 0
  /\ numSolvedCells = 0 /\ pushCount = 0
  /\ popLog = <<>> /\ heldAtPop = {}
  /\ FlowUnused

PQPush ==
  /\ tool = "pq" /\ pushCount < MaxPushes
  /\ UNCHANGED restVars
  /\ \E q \in 0 .. MaxKey, f \in {0, 1} :
       /\ pq' = Push(pq, newGridCell(0, 0, f), Key(q, f), pushCount)
       /\ pushCount' = pushCount + 1
  /\ UNCHANGED <<flowVars, tool, pc, popLog, heldAtPop, floodVars>>

PQPop ==
  /\ tool = "pq" /\ pq.elemsCount > 0
  /\ UNCHANGED restVars
  /\ heldAtPop' = HeldItems(pq)
  /\ popLog' = Append(popLog, PopItem(pq))
  /\ pq' = Pop(pq)
  /\ UNCHANGED <<flowVars, tool, pc, pushCount, floodVars>>

NextPQ == PQPush \/ PQPop
SpecPQ == InitPQ /\ [][NextPQ]_vars

\* C2: every pop returns an item whose priority key is the least of all the
\* keys the queue held at the moment of the pop.
C2_PopReturnsLeastKey ==
  popLog # <<>> =>
    \A it \in heldAtPop : KeyLE(popLog[Len(popLog)].priority, it.priority)

\* A pop from a queue that held three different keys, returning an item that
\* was not the first one pushed.
C2_Witness ==
  /\ tool = "pq" /\ popLog # <<>>
  /\ Cardinality({it.priority : it \in heldAtPop}) >= 3
  /\ popLog[Len(popLog)].seq > 0

(* ------------------- FillDepressions.Run (priority flood) -------------- *)
\* rout is kept on the padded grid; these are Raster.Value / SetValue on it.
RoutValue(out, row, col) ==
  IF InGrid(row, col) THEN out[<<row + 1, col + 1>>] ELSE NoData
RoutSetValue(out, row, col, v) ==
  IF InGrid(row, col) THEN [out EXCEPT ![<<row + 1, col + 1>>] = v] ELSE out

\* SMALL_NUM := 1 / elevMultiplier; 0 when flats are not fixed.
FillSmallNum(fix) == IF fix THEN Scale ELSE 0

\* The key an edge cell is pushed with at initialisation.  The source
\* computes it from zN, the last neighbour read (n = 7, the cell above),
\* not from the cell's own elevation z.
FillEdgePriority(z, zN) == Priority(zN, 0)

\* One cell of the initialisation scan.
FillInitCell(st, row, col) ==
  LET z == Value(dem, row, col)
      isEdgeCell == \E n \in 1 .. 8 :
                      Value(dem, row + dY[n], col + dX[n]) = NoData
      zN == Value(dem, row + dY[8], col + dX[8])
  IN  IF z # NoData
        THEN IF isEdgeCell
               THEN [st EXCEPT
                       !.pq = Push(st.pq, newGridCell(row, col, 0),
                                   FillEdgePriority(z, zN), st.pushCount),
                       !.pushCount = st.pushCount + 1,
                       !.inQueue = [st.inQueue EXCEPT ![<<row + 1, col + 1>>] = TRUE],
                       !.output = RoutSetValue(st.output, row, col, z),
                       !.numSolvedCells = st.numSolvedCells + 1]
               ELSE st
        ELSE [st EXCEPT !.numSolvedCells = st.numSolvedCells + 1]

RECURSIVE FillInitScan(_, _)
FillInitScan(st, idx) ==
  IF idx >= Rows * Cols THEN st
  ELSE FillInitScan(FillInitCell(st, idx \div Cols, idx % Cols), idx + 1)

\* A neighbour rule that raises the neighbour but starts its flat index anew.
FillNeighbourFlatZero(zN, z, flatindex, smallNum) ==
  IF zN <= z THEN [z |-> z + smallNum, n |-> 0]
             ELSE [z |-> zN, n |-> 0]

\* The elevation and flat index given to a neighbour found from a popped
\* cell of output elevation z and flat index flatindex.
FillNeighbour(zN, z, flatindex, smallNum) ==
  IF zN <= z THEN [z |-> z + smallNum, n |-> flatindex + 1]
             ELSE [z |-> zN, n |-> 0]

\* The eight neighbours of the popped cell (row, col), in order.
RECURSIVE FillNeighbours(_, _, _, _, _, _)
FillNeighbours(st, row, col, z, flatindex, i) ==
  IF i > 8 THEN st
  ELSE
    LET rowN == row + dY[i]
        colN == col + dX[i]
        zN == Value(dem, rowN, colN)
    IN  IF zN # NoData /\ ~st.inQueue[<<rowN + 1, colN + 1>>]
          THEN LET nb == FillNeighbour(zN, z, flatindex, FillSmallNum(fixFlats))
                   st2 == [st EXCEPT
                     !.numSolvedCells = st.numSolvedCells + 1,
                     !.output = RoutSetValue(st.output, rowN, colN, nb.z),
                     !.pq = Push(st.pq, newGridCell(rowN, colN, nb.n),
                                 Priority(nb.z, nb.n), st.pushCount),
                     !.pushCount = st.pushCount + 1,
                     !.inQueue = [st.inQueue EXCEPT ![<<rowN + 1, colN + 1>>] = TRUE]]
               IN  FillNeighbours(st2, row, col, z, flatindex, i + 1)
          ELSE FillNeighbours(st, row, col, z, flatindex, i + 1)

FloodState ==
  [pq |-> pq, output |-> output, inQueue |-> inQueue,
   numSolvedCells |-> numSolvedCells, pushCount |-> pushCount,
   pits |-> pits, flowdir |-> flowdir, numPits |-> numPits,
   numPitsSolved |-> numPitsSolved]

SetFloodState(st) ==
  /\ pq' = st.pq /\ output' = st.output /\ inQueue' = st.inQueue
  /\ numSolvedCells' = st.numSolvedCells /\ pushCount' = st.pushCount
  /\ pits' = st.pits /\ flowdir' = st.flowdir /\ numPits' = st.numPits
  /\ numPitsSolved' = st.numPitsSolved

\* The test that guards each pop of the flood loops: a counter of the cells
\* (fill) or of the pits (both breaching tools) still to be solved.
FloodLoopGuard ==
  IF tool = "fill" THEN numSolvedCells < numCellsTotal
  ELSE numPitsSolved < numPits

FillInit ==
  /\ tool = "fill" /\ pc = "init"
  /\ UNCHANGED restVars
  /\ SetFloodState(FillInitScan(FloodState, 0))
  /\ pc' = "loop"
  /\ UNCHANGED <<flowVars, tool, dem, fixFlats, streams, popLog, heldAtPop>>

\* One iteration of "for numSolvedCells < numCellsTotal".  Pop on an empty
\* queue indexes items[1] out of range: a run-time panic.
FillStep ==
  /\ tool = "fill" /\ pc = "loop" /\ FloodLoopGuard
  /\ UNCHANGED restVars
  /\ IF pq.elemsCount = 0
       THEN /\ pc' = "panic"
            /\ UNCHANGED <<pq, pushCount, popLog, heldAtPop, floodVars>>
       ELSE LET gc == PopItem(pq).value
                z == RoutValue(output, gc.row, gc.column)
                st == [FloodState EXCEPT !.pq = Pop(pq)]
            IN  /\ SetFloodState(FillNeighbours(st, gc.row, gc.column, z,
                                                gc.flatIndex, 1))
                /\ popLog' = Append(popLog, PopItem(pq))
                /\ heldAtPop' = HeldItems(pq)
                /\ pc' = pc
                /\ UNCHANGED <<dem, fixFlats, streams>>
  /\ UNCHANGED <<flowVars, tool>>

\* The loop has ended: the output raster is saved.
FillSave ==
  /\ tool = "fill" /\ pc = "loop" /\ ~FloodLoopGuard
  /\ UNCHANGED restVars
  /\ pc' = "done"
  /\ UNCHANGED <<flowVars, tool, pq, pushCount, popLog, heldAtPop, floodVars>>

(* ---------------- BreachDepressions.Run (complete breaching) ----------- *)
\* No slope increment at all.
BreachSmallNumNone == 0 * Scale
\* SMALL_NUM := 1 / elevMultiplier * 10
BreachSmallNum == 10 * Scale

\* The neighbour scan of the initialisation; it stops at the first lower
\* neighbour (the source's break).
RECURSIVE BreachScanNeighbours(_, _, _, _, _)
BreachScanNeighbours(acc, row, col, z, n) ==
  IF n > 8 THEN acc
  ELSE
    LET zN == Value(dem, row + dY[n], col + dX[n])
    IN  IF zN # NoData /\ zN < z
          THEN [acc EXCEPT !.isPit = FALSE]
          ELSE IF zN = NoData
            THEN BreachScanNeighbours([acc EXCEPT !.isEdgeCell = TRUE],
                                      row, col, z, n + 1)
            ELSE BreachScanNeighbours(
                   [acc EXCEPT !.lowestNeighbour =
                      IF zN < acc.lowestNeighbour THEN zN ELSE acc.lowestNeighbour],
                   row, col, z, n + 1)

\* The pre-pass value of a pit: just under its lowest neighbour.
BreachRaisedPitLevel(lowestNeighbour) == lowestNeighbour
BreachRaisedPit(lowestNeighbour) == lowestNeighbour - BreachSmallNum

\* An initialisation that pushes the edge cells without flagging them.
BreachInitCellUnflagged(st, row, col) ==
  LET z == Value(dem, row, col)
      rc == <<row + 1, col + 1>>
      st0 == [st EXCEPT !.output = [st.output EXCEPT ![rc] = z],
                        !.flowdir = [st.flowdir EXCEPT ![rc] = 0]]
      scan == BreachScanNeighbours(
                [isPit |-> TRUE, isEdgeCell |-> FALSE, lowestNeighbour |-> POS_INF],
                row, col, z, 1)
      st1 == IF scan.isEdgeCell
               THEN [st0 EXCEPT
                       !.pq = Push(st0.pq, newGridCell(row + 1, col + 1, 0),
                                   Priority(z, 0), st0.pushCount),
                       !.pushCount = st0.pushCount + 1]
               ELSE st0
      st2 == IF scan.isPit /\ ~scan.isEdgeCell
               THEN [st1 EXCEPT !.pits = [st1.pits EXCEPT ![rc] = TRUE],
                                !.numPits = st1.numPits + 1]
               ELSE st1
      st3 == IF scan.isPit /\ scan.lowestNeighbour # POS_INF
               THEN [st2 EXCEPT !.output =
                       [st2.output EXCEPT ![rc] = BreachRaisedPit(scan.lowestNeighbour)]]
               ELSE st2
  IN  IF z # NoData THEN st3
      ELSE [st0 EXCEPT !.numSolvedCells = st0.numSolvedCells + 1]

\* One cell of the initialisation scan of BreachDepressions.
BreachInitCell(st, row, col) ==
  LET z == Value(dem, row, col)
      rc == <<row + 1, col + 1>>
      st0 == [st EXCEPT !.output = [st.output EXCEPT ![rc] = z],
                        !.flowdir = [st.flowdir EXCEPT ![rc] = 0]]
      scan == BreachScanNeighbours(
                [isPit |-> TRUE, isEdgeCell |-> FALSE, lowestNeighbour |-> POS_INF],
                row, col, z, 1)
      st1 == IF scan.isEdgeCell
               THEN [st0 EXCEPT
                       !.pq = Push(st0.pq, newGridCell(row + 1, col + 1, 0),
                                   Priority(z, 0), st0.pushCount),
                       !.pushCount = st0.pushCount + 1,
                       !.inQueue = [st0.inQueue EXCEPT ![rc] = TRUE]]
               ELSE st0
      st2 == IF scan.isPit /\ ~scan.isEdgeCell
               THEN [st1 EXCEPT !.pits = [st1.pits EXCEPT ![rc] = TRUE],
                                !.numPits = st1.numPits + 1]
               ELSE st1
      st3 == IF scan.isPit /\ scan.lowestNeighbour # POS_INF
               THEN [st2 EXCEPT !.output =
                       [st2.output EXCEPT ![rc] = BreachRaisedPit(scan.lowestNeighbour)]]
               ELSE st2
  IN  IF z # NoData THEN st3
      ELSE [st0 EXCEPT !.numSolvedCells = st0.numSolvedCells + 1]

RECURSIVE BreachInitScan(_, _)
BreachInitScan(st, idx) ==
  IF idx >= Rows * Cols THEN st
  ELSE BreachInitScan(BreachInitCell(st, idx \div Cols, idx % Cols), idx + 1)

\* The trace back along flowdir from a pit: each step lowers zTest by
\* SMALL_NUM and writes it to the next cell up the chain, until a cell
\* already at or below zTest, a nodata cell or a root is met.
\* A trace that forgets to lower zTest at each step.
RECURSIVE BreachTraceNoSlope(_, _, _, _, _)
BreachTraceNoSlope(out, fd, r, c, zTest) ==
  LET zT == zTest
      dir == fd[<<r, c>>]
  IN  IF dir > 0
        THEN LET r2 == r + dY[dir]
                 c2 == c + dX[dir]
                 zN2 == out[<<r2, c2>>]
             IN  IF zN2 <= zT \/ zN2 = NoData
                   THEN out
                   ELSE BreachTraceNoSlope([out EXCEPT ![<<r2, c2>>] = zT],
                                           fd, r2, c2, zT)
        ELSE out

RECURSIVE BreachTrace(_, _, _, _, _)
BreachTrace(out, fd, r, c, zTest) ==
  LET zT == zTest - BreachSmallNum
      dir == fd[<<r, c>>]
  IN  IF dir > 0
        THEN LET r2 == r + dY[dir]
                 c2 == c + dX[dir]
                 zN2 == out[<<r2, c2>>]
             IN  IF zN2 <= zT \/ zN2 = NoData
                   THEN out
                   ELSE BreachTrace([out EXCEPT ![<<r2, c2>>] = zT], fd, r2, c2, zT)
        ELSE out

RECURSIVE BreachNeighbours(_, _, _, _, _)
BreachNeighbours(st, row, col, flatindex, i) ==
  IF i > 8 THEN st
  ELSE
    LET rowN == row + dY[i]
        colN == col + dX[i]
        rc == <<rowN, colN>>
        zN == st.output[rc]
    IN  IF zN # NoData /\ ~st.inQueue[rc]
          THEN LET fd == [st.flowdir EXCEPT ![rc] = backLink[i]]
                   isPit == st.pits[rc]
                   n == IF isPit THEN flatindex + 1 ELSE 0
                   st2 == [st EXCEPT
                     !.flowdir = fd,
                     !.numPitsSolved = IF isPit THEN st.numPitsSolved + 1
                                                ELSE st.numPitsSolved,
                     !.output = IF isPit
                                  THEN BreachTrace(st.output, fd, rowN, colN, zN)
                                  ELSE st.output,
                     !.numSolvedCells = st.numSolvedCells + 1,
                     !.pq = Push(st.pq, newGridCell(rowN, colN, n),
                                 Priority(zN, n), st.pushCount),
                     !.pushCount = st.pushCount + 1,
                     !.inQueue = [st.inQueue EXCEPT ![rc] = TRUE]]
               IN  BreachNeighbours(st2, row, col, flatindex, i + 1)
          ELSE BreachNeighbours(st, row, col, flatindex, i + 1)

BreachInit ==
  /\ tool = "breach" /\ pc = "init"
  /\ UNCHANGED restVars
  /\ SetFloodState(BreachInitScan(FloodState, 0))
  /\ pc' = "loop"
  /\ UNCHANGED <<flowVars, tool, dem, fixFlats, streams, popLog, heldAtPop>>

\* One iteration of "for numPitsSolved < numPits".
BreachStep ==
  /\ tool = "breach" /\ pc = "loop" /\ FloodLoopGuard
  /\ UNCHANGED restVars
  /\ IF pq.elemsCount = 0
       THEN /\ pc' = "panic"
            /\ UNCHANGED <<pq, pushCount, popLog, heldAtPop, floodVars>>
       ELSE LET gc == PopItem(pq).value
                st == [FloodState EXCEPT !.pq = Pop(pq)]
            IN  /\ SetFloodState(BreachNeighbours(st, gc.row, gc.column,
                                                  gc.flatIndex, 1))
                /\ popLog' = Append(popLog, PopItem(pq))
                /\ heldAtPop' = HeldItems(pq)
                /\ pc' = pc
                /\ UNCHANGED <<dem, fixFlats, streams>>
  /\ UNCHANGED <<flowVars, tool>>

\* All pits are solved: output is copied to the new raster and saved.
BreachSave ==
  /\ tool = "breach" /\ pc = "loop" /\ ~FloodLoopGuard
  /\ UNCHANGED restVars
  /\ pc' = "done"
  /\ UNCHANGED <<flowVars, tool, pq, pushCount, popLog, heldAtPop, floodVars>>

(* ------------------ BreachStreams.Run (stream-aware) ------------------- *)
StreamsNoData == NoData
StreamsValue(g, row, col) ==
  IF <<row, col>> \in DOMAIN g THEN g[<<row, col>>] ELSE StreamsNoData
\* "streams.Rows != rows || streams.Columns != columns" does not hold.
ConformantAlways(g) == TRUE
Conformant(g) == DOMAIN g = Cells
IsStream(s) == s # StreamsNoData /\ s > 0

\* Keys that give stream cells the base of the other cells.
StreamPriorityOneBase(z, n, isStream) ==
  Key(STREAM_BASE_Q + TruncDiv(z, Scale), n % STREAM_TIE_MULT)

\* Stream cells get keys below those of every non-stream cell.
StreamPriority(z, n, isStream) ==
  Key((IF isStream THEN 0 ELSE STREAM_BASE_Q) + TruncDiv(z, Scale),
      n % STREAM_TIE_MULT)

\* The neighbour scan of the initialisation (no break in this tool).
RECURSIVE StreamsScanNeighbours(_, _, _, _, _, _)
StreamsScanNeighbours(acc, row, col, z, isStream, n) ==
  IF n > 8 THEN acc
  ELSE
    LET zN == Value(dem, row + dY[n], col + dX[n])
        sN == StreamsValue(streams, row + dY[n], col + dX[n])
        acc2 ==
          IF zN # NoData /\ zN < z
            THEN IF ~isStream \/ IsStream(sN)
                   THEN [acc EXCEPT !.isPit = FALSE]
                   ELSE acc
            ELSE IF zN = NoData
              THEN [acc EXCEPT !.isEdgeCell = TRUE]
              ELSE [acc EXCEPT !.lowestNeighbour =
                      IF zN < acc.lowestNeighbour THEN zN ELSE acc.lowestNeighbour]
    IN  StreamsScanNeighbours(acc2, row, col, z, isStream, n + 1)

StreamsInitCell(st, row, col) ==
  LET z == Value(dem, row, col)
      rc == <<row + 1, col + 1>>
      isStream == IsStream(StreamsValue(streams, row, col))
      st0 == [st EXCEPT !.output = [st.output EXCEPT ![rc] = z],
                        !.flowdir = [st.flowdir EXCEPT ![rc] = 0]]
      scan == StreamsScanNeighbours(
                [isPit |-> TRUE, isEdgeCell |-> FALSE, lowestNeighbour |-> POS_INF],
                row, col, z, isStream, 1)
      st1 == IF scan.isEdgeCell
               THEN [st0 EXCEPT
                       !.pq = Push(st0.pq, newGridCell(row + 1, col + 1, 0),
                                   StreamPriority(z, 0, isStream), st0.pushCount),
                       !.pushCount = st0.pushCount + 1,
                       !.inQueue = [st0.inQueue EXCEPT ![rc] = TRUE]]
               ELSE st0
      st2 == IF scan.isPit /\ ~scan.isEdgeCell
               THEN [st1 EXCEPT !.pits = [st1.pits EXCEPT ![rc] = TRUE],
                                !.numPits = st1.numPits + 1]
               ELSE st1
      st3 == IF scan.isPit /\ scan.lowestNeighbour # POS_INF /\ ~isStream
               THEN [st2 EXCEPT !.output =
                       [st2.output EXCEPT ![rc] = scan.lowestNeighbour - BreachSmallNum]]
               ELSE st2
  IN  IF z # NoData THEN st3
      ELSE [st0 EXCEPT !.numSolvedCells = st0.numSolvedCells + 1]

RECURSIVE StreamsInitScan(_, _)
StreamsInitScan(st, idx) ==
  IF idx >= Rows * Cols THEN st
  ELSE StreamsInitScan(StreamsInitCell(st, idx \div Cols, idx % Cols), idx + 1)

\* The lowest valid non-stream neighbour of (r, c), as the trace reads it:
\* the stream grid is read at the padded indices r, c themselves.
RECURSIVE StreamsLowestNonStream(_, _, _, _, _)
StreamsLowestNonStream(out, r, c, n, lowest) ==
  IF n > 8 THEN lowest
  ELSE
    LET sN == StreamsValue(streams, r + dY[n], c + dX[n])
        zN3 == out[<<r + dY[n], c + dX[n]>>]
    IN  StreamsLowestNonStream(out, r, c, n + 1,
          IF (sN = 0 \/ sN = StreamsNoData) /\ zN3 # NoData /\ zN3 < lowest
            THEN zN3 ELSE lowest)

RECURSIVE StreamsTrace(_, _, _, _, _)
StreamsTrace(out, fd, r, c, zTest) ==
  LET zT0 == zTest - BreachSmallNum
      s == StreamsValue(streams, r, c)
      lowestNeighbour == StreamsLowestNonStream(out, r, c, 1, POS_INF)
      zT == IF s > 0 /\ s # StreamsNoData /\ lowestNeighbour < zT0
              THEN lowestNeighbour - BreachSmallNum ELSE zT0
      dir == fd[<<r, c>>]
  IN  IF dir > 0
        THEN LET r2 == r + dY[dir]
                 c2 == c + dX[dir]
                 zN2 == out[<<r2, c2>>]
             IN  IF zN2 <= zT \/ zN2 = NoData
                   THEN out
                   ELSE StreamsTrace([out EXCEPT ![<<r2, c2>>] = zT], fd, r2, c2, zT)
        ELSE out

RECURSIVE StreamsNeighbours(_, _, _, _, _)
StreamsNeighbours(st, row, col, flatindex, i) ==
  IF i > 8 THEN st
  ELSE
    LET rowN == row + dY[i]
        colN == col + dX[i]
        rc == <<rowN, colN>>
        zN == st.output[rc]
    IN  IF zN # NoData /\ ~st.inQueue[rc]
          THEN LET fd == [st.flowdir EXCEPT ![rc] = backLink[i]]
                   isPit == st.pits[rc]
                   n == IF isPit THEN flatindex + 1 ELSE 0
                   isStream == IsStream(StreamsValue(streams, rowN - 1, colN - 1))
                   st2 == [st EXCEPT
                     !.flowdir = fd,
                     !.numPitsSolved = IF isPit THEN st.numPitsSolved + 1
                                                ELSE st.numPitsSolved,
                     !.output = IF isPit
                                  THEN StreamsTrace(st.output, fd, rowN, colN, zN)
                                  ELSE st.output,
                     !.numSolvedCells = st.numSolvedCells + 1,
                     !.pq = Push(st.pq, newGridCell(rowN, colN, n),
                                 StreamPriority(zN, n, isStream), st.pushCount),
                     !.pushCount = st.pushCount + 1,
                     !.inQueue = [st.inQueue EXCEPT ![rc] = TRUE]]
               IN  StreamsNeighbours(st2, row, col, flatindex, i + 1)
          ELSE StreamsNeighbours(st, row, col, flatindex, i + 1)

\* The streams grid is not of the DEM's dimensions: the run returns.
StreamsAbort ==
  /\ tool = "streams" /\ pc = "init" /\ ~Conformant(streams)
  /\ pc' = "abort"
  /\ UNCHANGED <<tool, pq, pushCount, popLog, heldAtPop, floodVars, flowVars,
                 restVars>>

StreamsInit ==
  /\ tool = "streams" /\ pc = "init" /\ Conformant(streams)
  /\ UNCHANGED restVars
  /\ SetFloodState(StreamsInitScan(FloodState, 0))
  /\ pc' = "loop"
  /\ UNCHANGED <<flowVars, tool, dem, fixFlats, streams, popLog, heldAtPop>>

StreamsStep ==
  /\ tool = "streams" /\ pc = "loop" /\ FloodLoopGuard
  /\ UNCHANGED restVars
  /\ IF pq.elemsCount = 0
       THEN /\ pc' = "panic"
            /\ UNCHANGED <<pq, pushCount, popLog, heldAtPop, floodVars>>
       ELSE LET gc == PopItem(pq).value
                st == [FloodState EXCEPT !.pq = Pop(pq)]
            IN  /\ SetFloodState(StreamsNeighbours(st, gc.row, gc.column,
                                                   gc.flatIndex, 1))
                /\ popLog' = Append(popLog, PopItem(pq))
                /\ heldAtPop' = HeldItems(pq)
                /\ pc' = pc
                /\ UNCHANGED <<dem, fixFlats, streams>>
  /\ UNCHANGED <<flowVars, tool>>

StreamsSave ==
  /\ tool = "streams" /\ pc = "loop" /\ ~FloodLoopGuard
  /\ UNCHANGED restVars
  /\ pc' = "done"
  /\ UNCHANGED <<flowVars, tool, pq, pushCount, popLog, heldAtPop, floodVars>>

\* The stream masks of the runs: the stream cells are row 1, column 1, or
\* the single interior cell (1, 1); and two stream grids that are a row or
\* a column short of the DEM.
StreamMasks ==
  {[c \in Cells |-> IF c[1] = 1 THEN 1 ELSE 0],
   [c \in Cells |-> IF c[2] = 1 THEN 1 ELSE 0],
   [c \in Cells |-> IF c = <<1, 1>> THEN 1 ELSE 0],
   [c \in (0 .. Rows - 2) \X (0 .. Cols - 1) |-> IF c[2] = 1 THEN 1 ELSE 0],
   [c \in (0 .. Rows - 1) \X (0 .. Cols - 2) |-> IF c[1] = 1 THEN 1 ELSE 0]}

(* --------------------------- SpecFlood --------------------------------- *)
InitFlood ==
  /\ RestUnused
  /\ tool \in {"fill", "breach", "streams"}
  /\ pc = "init"
  /\ dem \in DEMs \cup {TrivialPitDEM, FlatChainDEM}
  /\ fixFlats \in (IF tool = "fill" THEN BOOLEAN ELSE {FALSE})
  /\ streams \in (IF tool = "streams" THEN StreamMasks
                                       ELSE {[c \in Cells |-> 0]})
  /\ pq = NewPQueue
  /\ output = EmptyGrid(NoData) /\ inQueue = EmptyGrid(FALSE)
  /\ pits = EmptyGrid(FALSE) /\ flowdir = EmptyGrid(0)
  /\ numPits = 0 /\ numPitsSolved = 0
  /\ numSolvedCells = 0 /\ pushCount = 0
  /\ popLog = <<>> /\ heldAtPop = {}
  /\ FlowUnused

\* A cell of the output has an 8-neighbour that is strictly lower or nodata.
HasLowerOrNodataNeighbour(out, row, col) ==
  \E n \in 1 .. 8 :
    LET zN == out[<<row + dY[n], col + dX[n]>>]
    IN  zN = NoData \/ zN < out[<<row, col>>]

ValidOutputCells(out) ==
  {rc \in (1 .. Rows) \X (1 .. Cols) : out[rc] # NoData}

EveryCellDrains(out) ==
  \A rc \in ValidOutputCells(out) : HasLowerOrNodataNeighbour(out, rc[1], rc[2])

NextFlood ==
  \/ FillInit \/ FillStep \/ FillSave
  \/ BreachInit \/ BreachStep \/ BreachSave
  \/ StreamsAbort \/ StreamsInit \/ StreamsStep \/ StreamsSave
SpecFlood == InitFlood /\ [][NextFlood]_vars

LastPop == popLog[Len(popLog)]

\* C3 as stated: over a whole breaching or filling run the keys of the
\* cells returned by successive pops never decrease.
C3_PopKeysNonDecreasing ==
  tool \in {"fill", "breach"} =>
    \A i \in 1 .. Len(popLog) - 1 :
      KeyLE(popLog[i].priority, popLog[i + 1].priority)

\* C4 as stated: cells whose keys have the same scaled-elevation part leave
\* the queue in the order in which they entered it.
C4_TiesPopFIFO ==
  (tool \in {"fill", "breach"} /\ popLog # <<>>) =>
    \A it \in heldAtPop :
      it.priority.q = LastPop.priority.q => LastPop.seq <= it.seq

\* C4 (amended): of the cells held in the queue whose keys have the same
\* scaled-elevation part, the one popped has the least flatIndex mod 100000;
\* cells with equal keys leave in heap order, not in order of entry.
C4_TiesPopByFlatIndex ==
  (tool \in {"fill", "breach"} /\ popLog # <<>>) =>
    \A it \in heldAtPop :
      it.priority.q = LastPop.priority.q =>
        LastPop.value.flatIndex % TIE_MULT <= it.value.flatIndex % TIE_MULT

\* A pop that chose between held cells of one scaled elevation and
\* different flat indices.
C4_Witness ==
  /\ tool \in {"fill", "breach"} /\ popLog # <<>>
  /\ \E it \in heldAtPop :
       /\ it.priority.q = LastPop.priority.q
       /\ it.value.flatIndex > LastPop.value.flatIndex

(* --------------------- flow-accumulation grids ------------------------ *)
FlowCells == (0 .. FRows - 1) \X (0 .. FCols - 1)
\* The input DEMs of the flow-accumulation tools: every cell is nodata or
\* has one of the elevations 0 .. FMaxElev.
FlowDEMs == [FlowCells -> {NoData} \cup (0 .. FMaxElev)]
\* dem.Value: nodata outside the grid.
FlowValue(g, row, col) ==
  IF <<row, col>> \in DOMAIN g THEN g[<<row, col>>] ELSE NoData
\* The n-th neighbour of a cell.
Neighbour(c, n) == <<c[1] + dY[n], c[2] + dX[n]>>
\* Row-major position idx as a cell.
CellAt(idx) == <<idx \div FCols, idx % FCols>>

\* The state of the flood tools in a run of another program.
FloodUnused ==
  /\ fixFlats = FALSE /\ streams = <<>> /\ pq = NewPQueue
  /\ output = <<>> /\ inQueue = <<>> /\ pits = <<>>
  /\ numPits = 0 /\ numPitsSolved = 0 /\ numSolvedCells = 0
  /\ pushCount = 0 /\ popLog = <<>> /\ heldAtPop = {}
floodAll == <<pq, pushCount, popLog, heldAtPop, fixFlats, output, inQueue,
              pits, numPits, numPitsSolved, streams, numSolvedCells>>

(* ----- SpecBreach: BreachDepressions.Run with maxLength / maxDepth ------ *)
\* The DEMs of the limited runs: a surface at the top elevation with at most
\* MaxOff cells of the middle column at lower elevations, and the trench.
BreachDEMs ==
  {d \in PlateauDEMs(30, 30 * MaxElev) \cup PlateauDEMs(3, 3 * MaxElev) :
     \A c \in Cells : c[2] # 1 => d[c] \in {30 * MaxElev, 3 * MaxElev}}
    \cup {FlatChainDEM}

\* this.maxLength and this.maxDepth as Run finds them: a limit, or the
\* largest value of the type where ParseArguments found none.
BreachLengths == (1 .. MaxBreachLength) \cup {MaxInt32}
BreachDepths == {BreachDepthLimit, MaxFloat64}
BreachTools ==
  [maxLength : BreachLengths, maxDepth : BreachDepths,
   constrainedBreaching : BOOLEAN, postBreachFilling : BOOLEAN]

maxLengthOrDepthUsed(t) == t.maxDepth > 0 \/ t.maxLength > 0
performConstrainedBreaching(t) ==
  IF ~maxLengthOrDepthUsed(t) /\ t.constrainedBreaching THEN FALSE
  ELSE t.constrainedBreaching

numValidCells == Cardinality({c \in Cells : dem[c] # NoData})

\* floodorder[floodOrderTail] = row*columns + col, and its reading back.
FloodOrderIndex(row, col) == row * Cols + col
FloodOrderRow(v) == v \div Cols
FloodOrderCol(v) == v % Cols

InitBreach ==
  /\ call = <<>> /\ ret = <<>> /\ med = <<>> /\ files = <<>> /\ rd = <<>>
  /\ tool = "breachlimits" /\ pc = "init"
  /\ dem \in BreachDEMs
  /\ bd \in BreachTools
  /\ post = [needsFilling |-> FALSE, numUnsolvedPits |-> 0,
             floodorder |-> <<>>, floodOrderTail |-> 0, c |-> 0, log |-> <<>>]
  /\ fixFlats = FALSE /\ streams = [c \in Cells |-> 0]
  /\ pq = NewPQueue
  /\ output = EmptyGrid(NoData) /\ inQueue = EmptyGrid(FALSE)
  /\ pits = EmptyGrid(FALSE) /\ flowdir = EmptyGrid(0)
  /\ numPits = 0 /\ numPitsSolved = 0
  /\ numSolvedCells = 0 /\ pushCount = 0
  /\ popLog = <<>> /\ heldAtPop = {}
  /\ FlowUnused

\* The commit test of both limited modes.
BreachWithinLengthOnly(numCellsInPath, maxPathBreachDepth, t) ==
  numCellsInPath <= t.maxLength
BreachWithinLimits(numCellsInPath, maxPathBreachDepth, t) ==
  numCellsInPath <= t.maxLength /\ maxPathBreachDepth <= t.maxDepth

\* The dry run of selective breaching: the trace without its writes, given
\* up as soon as a limit is passed.
RECURSIVE SelectiveDryRun(_, _, _, _, _, _, _, _)
SelectiveDryRun(out, fd, r, c, zTest, numCellsInPath, maxPathBreachDepth, t) ==
  LET zT == zTest - BreachSmallNum
      dir == fd[<<r, c>>]
      r2 == r + dY[dir]
      c2 == c + dX[dir]
      lower == dir > 0 /\ (out[<<r2, c2>>] <= zT \/ out[<<r2, c2>>] = NoData)
      breachDepth == Value(dem, r2 - 1, c2 - 1) - zT
      depth == IF dir > 0 /\ ~lower /\ breachDepth > maxPathBreachDepth
                 THEN breachDepth ELSE maxPathBreachDepth
      n == numCellsInPath + 1
  IN  IF dir > 0 /\ ~lower /\ ~(n > t.maxLength) /\ ~(depth > t.maxDepth)
        THEN SelectiveDryRun(out, fd, r2, c2, zT, n, depth, t)
        ELSE [numCellsInPath |-> n, maxPathBreachDepth |-> depth]

\* The dry run of constrained breaching: the whole trace, with the highest
\* input elevation on it (the outlet) and the number of steps before it.
RECURSIVE ConstrainedDryRun(_, _, _, _, _, _)
ConstrainedDryRun(out, fd, r, c, zTest, acc) ==
  LET zT == zTest - BreachSmallNum
      dir == fd[<<r, c>>]
      r2 == r + dY[dir]
      c2 == c + dX[dir]
      lower == dir > 0 /\ (out[<<r2, c2>>] <= zT \/ out[<<r2, c2>>] = NoData)
      zOrig == Value(dem, r2 - 1, c2 - 1)
      breachDepth == zOrig - zT
      walked == dir > 0 /\ ~lower
      acc2 ==
        [numCellsInPath |-> acc.numCellsInPath + 1,
         maxPathBreachDepth |->
           IF walked /\ breachDepth > acc.maxPathBreachDepth
             THEN breachDepth ELSE acc.maxPathBreachDepth,
         outletHeight |->
           IF walked /\ zOrig > acc.outletHeight THEN zOrig ELSE acc.outletHeight,
         outletDist |->
           IF walked /\ zOrig > acc.outletHeight THEN acc.numCellsInPath
                                                 ELSE acc.outletDist]
  IN  IF walked THEN ConstrainedDryRun(out, fd, r2, c2, zT, acc2) ELSE acc2

\* targetDist of a pit whose path is longer than maxLength.
TargetDist(outletDist, maxLength) ==
  IF outletDist < maxLength \div 2 THEN maxLength
  ELSE outletDist + maxLength \div 2

\* "for j = 0; j < targetDist; j++": the output of the cell targetDist
\* steps up the path, or of the root if that comes first.
RECURSIVE TargetLevel(_, _, _, _, _, _, _)
TargetLevel(out, fd, r, c, zTest, j, targetDist) ==
  IF j < targetDist /\ fd[<<r, c>>] > 0
    THEN LET r2 == r + dY[fd[<<r, c>>]]
             c2 == c + dX[fd[<<r, c>>]]
         IN  TargetLevel(out, fd, r2, c2, out[<<r2, c2>>], j + 1, targetDist)
    ELSE zTest

\* The lowering loop of constrained breaching.
RECURSIVE ConstrainedLower(_, _, _, _, _, _, _, _)
ConstrainedLower(out, fd, r, c, zN, zTest, numCellsInPath, targetDist) ==
  LET dir == fd[<<r, c>>]
      r2 == r + dY[dir]
      c2 == c + dX[dir]
      lower == dir > 0 /\ (out[<<r2, c2>>] <= zN \/ out[<<r2, c2>>] = NoData)
      out2 == IF dir > 0 /\ ~lower /\ out[<<r2, c2>>] > zTest
                THEN [out EXCEPT ![<<r2, c2>>] = zTest] ELSE out
  IN  IF dir > 0 /\ ~lower /\ ~(numCellsInPath + 1 > targetDist)
        THEN ConstrainedLower(out2, fd, r2, c2, zN, zTest,
                              numCellsInPath + 1, targetDist)
        ELSE out2

\* The locals of the constrained branch for a pit that passes a limit.
ConstrainedPlan(out, fd, rowN, colN, dry, t) ==
  LET floor == dry.outletHeight - t.maxDepth
      targetDist == IF dry.numCellsInPath > t.maxLength
                      THEN TargetDist(dry.outletDist, t.maxLength)
                      ELSE dry.numCellsInPath
      level == TargetLevel(out, fd, rowN, colN, floor, 0, targetDist)
      zTest == IF dry.numCellsInPath > t.maxLength
                 THEN IF dry.outletHeight - level > t.maxDepth THEN floor
                      ELSE level
                 ELSE floor
  IN  [zTest |-> zTest, targetDist |-> targetDist]

\* Ghost: the cells of the backlink path from (r, c), nearest first.
RECURSIVE BackPath(_, _, _)
BackPath(fd, r, c) ==
  IF fd[<<r, c>>] = 0 THEN <<>>
  ELSE LET r2 == r + dY[fd[<<r, c>>]]
           c2 == c + dX[fd[<<r, c>>]]
       IN  <<(<<r2, c2>>)>> \o BackPath(fd, r2, c2)

\* What one pit found by the limited loops does to the output, with the
\* ghost record of it.
BreachLimitedPit(st, fd, rowN, colN, zN, t) ==
  LET constrained == performConstrainedBreaching(t)
      sel == SelectiveDryRun(st.output, fd, rowN, colN, zN, 0, 0, t)
      con == ConstrainedDryRun(st.output, fd, rowN, colN, zN,
               [numCellsInPath |-> 0, maxPathBreachDepth |-> 0,
                outletHeight |-> -MaxFloat64, outletDist |-> 0])
      dry == IF constrained THEN con ELSE sel
      within == BreachWithinLimits(dry.numCellsInPath, dry.maxPathBreachDepth, t)
      plan == ConstrainedPlan(st.output, fd, rowN, colN, con, t)
      out2 == IF within THEN BreachTrace(st.output, fd, rowN, colN, zN)
              ELSE IF constrained
                THEN ConstrainedLower(st.output, fd, rowN, colN, zN,
                                      plan.zTest, 0, plan.targetDist)
                ELSE st.output
      path == BackPath(fd, rowN, colN)
      entry ==
        [pit |-> <<rowN, colN>>,
         numCellsInPath |-> dry.numCellsInPath,
         maxPathBreachDepth |-> dry.maxPathBreachDepth,
         outletHeight |-> IF constrained THEN con.outletHeight ELSE 0,
         zTest |-> IF constrained /\ ~within THEN plan.zTest ELSE 0,
         targetDist |-> IF constrained /\ ~within THEN plan.targetDist ELSE 0,
         path |-> path,
         before |-> [k \in 1 .. Len(path) |-> st.output[path[k]]],
         after |-> [k \in 1 .. Len(path) |-> out2[path[k]]],
         offPath |-> \E rc \in PaddedCells :
                       /\ out2[rc] # st.output[rc]
                       /\ \A k \in 1 .. Len(path) : path[k] # rc]
  IN  [st EXCEPT !.output = out2,
                 !.needsFilling = st.needsFilling \/ ~within,
                 !.numUnsolvedPits = IF within \/ constrained
                                       THEN st.numUnsolvedPits
                                       ELSE st.numUnsolvedPits + 1,
                 !.log = Append(st.log, entry)]

RECURSIVE BreachLimitedNeighbours(_, _, _, _, _, _)
BreachLimitedNeighbours(st, row, col, flatindex, i, t) ==
  IF i > 8 THEN st
  ELSE
    LET rowN == row + dY[i]
        colN == col + dX[i]
        rc == <<rowN, colN>>
        zN == st.output[rc]
    IN  IF zN # NoData /\ ~st.inQueue[rc]
          THEN LET fd == [st.flowdir EXCEPT ![rc] = backLink[i]]
                   isPit == st.pits[rc]
                   n == IF isPit THEN flatindex + 1 ELSE 0
                   st1 == IF isPit
                            THEN BreachLimitedPit(st, fd, rowN, colN, zN, t)
                            ELSE st
                   st2 == [st1 EXCEPT
                     !.flowdir = fd,
                     !.numPitsSolved = IF isPit THEN st.numPitsSolved + 1
                                                ELSE st.numPitsSolved,
                     !.numSolvedCells = st.numSolvedCells + 1,
                     !.pq = Push(st.pq, newGridCell(rowN, colN, n),
                                 Priority(zN, n), st.pushCount),
                     !.pushCount = st.pushCount + 1,
                     !.inQueue = [st.inQueue EXCEPT ![rc] = TRUE]]
               IN  BreachLimitedNeighbours(st2, row, col, flatindex, i + 1, t)
          ELSE BreachLimitedNeighbours(st, row, col, flatindex, i + 1, t)

BreachLimitedState ==
  [pq |-> pq, output |-> output, inQueue |-> inQueue,
   numSolvedCells |-> numSolvedCells, pushCount |-> pushCount,
   pits |-> pits, flowdir |-> flowdir, numPits |-> numPits,
   numPitsSolved |-> numPitsSolved, needsFilling |-> post.needsFilling,
   numUnsolvedPits |-> post.numUnsolvedPits, log |-> post.log]

\* The initialisation shared with complete breaching; floodorder is made
\* with one zero for each valid cell.
BreachLimitedInit ==
  /\ tool = "breachlimits" /\ pc = "init"
  /\ SetFloodState(BreachInitScan(FloodState, 0))
  /\ post' = [post EXCEPT !.floodorder = [k \in 1 .. numValidCells |-> 0]]
  /\ pc' = "loop"
  /\ UNCHANGED <<call, ret, med, files, rd, bd>>
  /\ UNCHANGED <<flowVars, tool, dem, fixFlats, streams, popLog, heldAtPop>>

\* One iteration of "for pq.Len() > 0" of the selective or the constrained
\* branch.
BreachLimitedStep ==
  /\ tool = "breachlimits" /\ pc = "loop" /\ pq.elemsCount > 0
  /\ LET gc == PopItem(pq).value
         st == [BreachLimitedState EXCEPT !.pq = Pop(pq)]
         st2 == BreachLimitedNeighbours(st, gc.row, gc.column, gc.flatIndex, 1, bd)
     IN  /\ SetFloodState(st2)
         /\ post' = [post EXCEPT
              !.needsFilling = st2.needsFilling,
              !.numUnsolvedPits = st2.numUnsolvedPits,
              !.log = st2.log,
              !.floodorder =
                IF bd.postBreachFilling
                  THEN [post.floodorder EXCEPT ![post.floodOrderTail + 1] =
                          FloodOrderIndex(gc.row, gc.column)]
                  ELSE post.floodorder,
              !.floodOrderTail = IF bd.postBreachFilling
                                   THEN post.floodOrderTail + 1
                                   ELSE post.floodOrderTail]
         /\ popLog' = Append(popLog, PopItem(pq))
         /\ heldAtPop' = HeldItems(pq)
  /\ pc' = pc
  /\ UNCHANGED <<call, ret, med, files, rd, bd>>
  /\ UNCHANGED <<flowVars, tool, dem, fixFlats, streams>>

\* The queue is empty: the filling pass follows if it is wanted and needed.
BreachLimitedLoopEnd ==
  /\ tool = "breachlimits" /\ pc = "loop" /\ pq.elemsCount = 0
  /\ pc' = IF post.needsFilling /\ bd.postBreachFilling THEN "fill" ELSE "done"
  /\ UNCHANGED <<call, ret, med, files, rd, bd, post>>
  /\ UNCHANGED <<flowVars, tool, pq, pushCount, popLog, heldAtPop, floodVars>>

\* A raise that forgets the slope increment.
PostFillLevelFlat(zN) == zN
\* "output[row][col] = zN + SMALL_NUM"
PostFillLevel(zN) == zN + BreachSmallNum

\* One cell of the filling pass: it is raised to just above the cell its
\* backlink points to, if it is not above that already.
PostFillCell(out, fd, row, col) ==
  LET z == out[<<row, col>>]
      dir == fd[<<row, col>>]
      zN == out[<<row + dY[dir], col + dX[dir]>>]
  IN  IF row >= 0 /\ col >= 0 /\ dir > 0 /\ zN # NoData
           /\ z <= zN + BreachSmallNum
        THEN [out EXCEPT ![<<row, col>>] = PostFillLevel(zN)]
        ELSE out

\* One iteration of "for c := 0; c < numValidCells; c++".
BreachPostFillStep ==
  /\ tool = "breachlimits" /\ pc = "fill" /\ post.c < numValidCells
  /\ output' = PostFillCell(output, flowdir,
                            FloodOrderRow(post.floodorder[post.c + 1]),
                            FloodOrderCol(post.floodorder[post.c + 1]))
  /\ post' = [post EXCEPT !.c = post.c + 1]
  /\ numSolvedCells' = post.c + 1
  /\ pc' = pc
  /\ UNCHANGED <<call, ret, med, files, rd, bd>>
  /\ UNCHANGED <<flowVars, tool, pq, pushCount, popLog, heldAtPop, dem, fixFlats,
                 inQueue, pits, flowdir, numPits, numPitsSolved, streams>>

BreachPostFillEnd ==
  /\ tool = "breachlimits" /\ pc = "fill" /\ post.c >= numValidCells
  /\ pc' = "done"
  /\ UNCHANGED <<call, ret, med, files, rd, bd, post>>
  /\ UNCHANGED <<flowVars, tool, pq, pushCount, popLog, heldAtPop, floodVars>>

NextBreach ==
  \/ BreachLimitedInit \/ BreachLimitedStep \/ BreachLimitedLoopEnd
  \/ BreachPostFillStep \/ BreachPostFillEnd
SpecBreach == InitBreach /\ [][NextBreach]_vars

(* ------------------- SpecD8: D8 flow accumulation ---------------------- *)
\* x > sqrt(2) * y, decided exactly on the integers.
GtSqrt2(x, y) ==
  IF y > 0 THEN x > 0 /\ x * x > 2 * y * y
  ELSE IF x >= 0 THEN x > 0 \/ y < 0
  ELSE x * x < 2 * y * y

\* dist[n]: square cells of side 1; the odd directions are the diagonals.
IsDiagonal(n) == n % 2 = 1

\* d1 / dist[n1] > d2 / dist[n2].
SlopeGT(d1, n1, d2, n2) ==
  IF IsDiagonal(n1) = IsDiagonal(n2) THEN d1 > d2
  ELSE IF IsDiagonal(n1) THEN GtSqrt2(d1, d2)
  ELSE ~(d1 = 0 /\ d2 = 0) /\ ~GtSqrt2(d2, d1)

\* The neighbour scan of one cell: the first neighbour of greatest slope.
\* best.has is false while maxSlope is still -Inf.
RECURSIVE D8Steepest(_, _, _, _, _)
D8Steepest(g, row, col, n, best) ==
  IF n > 8 THEN best
  ELSE
    LET z == FlowValue(g, row, col)
        zN == FlowValue(g, row + dY[n], col + dX[n])
    IN  IF zN # NoData /\ (~best.has \/ SlopeGT(z - zN, n, best.diff, best.dir))
          THEN D8Steepest(g, row, col, n + 1,
                          [has |-> TRUE, diff |-> z - zN, dir |-> n])
          ELSE D8Steepest(g, row, col, n + 1, best)

\* Loop 1 of 3: flow directions and inflow counts.  The source pads both
\* arrays by one cell on each side; the model indexes them by the cell.
RECURSIVE D8PointerScan(_, _, _)
D8PointerScan(g, st, idx) ==
  IF idx >= FRows * FCols THEN st
  ELSE
    LET c == CellAt(idx)
        b == D8Steepest(g, c[1], c[2], 1, [has |-> FALSE, diff |-> 0, dir |-> 0])
        st2 ==
          IF g[c] # NoData
            THEN IF b.has /\ b.diff > 0
                   THEN [flowdir |-> [st.flowdir EXCEPT ![c] = b.dir],
                         numInflowing |->
                           [st.numInflowing EXCEPT ![Neighbour(c, b.dir)] = @ + 1]]
                   ELSE [st EXCEPT !.flowdir[c] = 0]
            ELSE [st EXCEPT !.flowdir[c] = 0, !.numInflowing[c] = 0]
    IN  D8PointerScan(g, st2, idx + 1)

\* Loop 2 of 3 pushes the valid cells that no cell flows into.
D8SeedableAny(g, ninf, c) == g[c] # NoData
D8Seedable(g, ninf, c) == g[c] # NoData /\ ninf[c] = 0

RECURSIVE D8Seed(_, _, _, _)
D8Seed(g, ninf, q, idx) ==
  IF idx >= FRows * FCols THEN q
  ELSE D8Seed(g, ninf,
              IF D8Seedable(g, ninf, CellAt(idx)) THEN Append(q, CellAt(idx))
                                                  ELSE q,
              idx + 1)

\* The number of occurrences of each cell in a sequence of cells.
CountIn(q) == [c \in FlowCells |-> Cardinality({i \in 1 .. Len(q) : q[i] = c})]

D8Init ==
  /\ tool = "d8" /\ pc = "init"
  /\ UNCHANGED restVars
  /\ LET st == D8PointerScan(dem, [flowdir |-> [c \in FlowCells |-> 0],
                                   numInflowing |-> [c \in FlowCells |-> 0]], 0)
         q == D8Seed(dem, st.numInflowing, <<>>, 0)
     IN  /\ flowdir' = st.flowdir
         /\ numInflowing' = st.numInflowing
         /\ fq' = q
         /\ pushes' = CountIn(q)
  /\ outputData' = [c \in FlowCells |-> 1]
  /\ pc' = "loop"
  /\ UNCHANGED <<tool, dem, wk, popOrder, poppedBy, access, floodAll>>

\* A receiver is pushed when its inflow count has come down to zero.
D8ReleasedAlways(ninf, t) == TRUE
D8Released(ninf, t) == ninf[t] = 0

\* Loop 3 of 3, one iteration: pop a cell and pass its accumulation on.
D8Step ==
  /\ tool = "d8" /\ pc = "loop" /\ Len(fq) > 0
  /\ UNCHANGED restVars
  /\ LET c == Head(fq)
         z == outputData[c]
         dir == flowdir[c]
         t == Neighbour(c, dir)
     IN  /\ popOrder' = Append(popOrder, c)
         /\ IF dir > 0
              THEN LET ninf == [numInflowing EXCEPT ![t] = @ - 1]
                   IN  /\ outputData' = [outputData EXCEPT ![t] = @ + z]
                       /\ numInflowing' = ninf
                       /\ IF D8Released(ninf, t)
                            THEN /\ fq' = Append(Tail(fq), t)
                                 /\ pushes' = [pushes EXCEPT ![t] = @ + 1]
                            ELSE /\ fq' = Tail(fq)
                                 /\ pushes' = pushes
              ELSE /\ fq' = Tail(fq)
                   /\ UNCHANGED <<outputData, numInflowing, pushes>>
  /\ UNCHANGED <<tool, pc, dem, flowdir, wk, poppedBy, access, floodAll>>

\* The loop ends when the FIFO is empty.
D8Save ==
  /\ tool = "d8" /\ pc = "loop" /\ Len(fq) = 0
  /\ UNCHANGED restVars
  /\ pc' = "done"
  /\ UNCHANGED <<tool, dem, flowdir, flowVars, floodAll>>

InitD8 ==
  /\ RestUnused
  /\ tool = "d8" /\ pc = "init"
  /\ dem \in FlowDEMs
  /\ flowdir = <<>>
  /\ FloodUnused /\ FlowUnused

NextD8 == D8Init \/ D8Step \/ D8Save
SpecD8 == InitD8 /\ [][NextD8]_vars

ValidFlowCells == {c \in FlowCells : dem[c] # NoData}
\* The cells whose flow direction points at c.
Donors(c) ==
  {d \in FlowCells : flowdir[d] > 0 /\ Neighbour(d, flowdir[d]) = c}

\* C5: in a D8 accumulation run no cell is ever pushed onto the FIFO twice,
\* a nodata cell is never pushed, and when the run is complete every valid
\* cell has been pushed exactly once (on any DEM, depressionless or not).
C5_EachValidCellPushedOnce ==
  (tool = "d8" /\ pc # "init") =>
    /\ \A c \in FlowCells : pushes[c] <= (IF dem[c] # NoData THEN 1 ELSE 0)
    /\ pc = "done" => \A c \in ValidFlowCells : pushes[c] = 1

\* A completed run in which a cell with two donors was pushed by the
\* decrement that brought its inflow count to zero.
C5_Witness ==
  /\ tool = "d8" /\ pc = "done"
  /\ \E c \in ValidFlowCells : Cardinality(Donors(c)) >= 2 /\ pushes[c] = 1

\* C6: D8 accumulation pops the cells in topological order: when a cell is
\* popped, every cell that drains into it has been popped before it.
C6_PoppedAfterAllDonors ==
  (tool = "d8" /\ pc # "init") =>
    \A i \in 1 .. Len(popOrder) :
      \A d \in Donors(popOrder[i]) :
        \E j \in 1 .. i - 1 : popOrder[j] = d

\* A popped cell with two donors, one of which has a donor of its own.
C6_Witness ==
  /\ tool = "d8" /\ pc # "init"
  /\ \E i \in 1 .. Len(popOrder) :
       /\ Cardinality(Donors(popOrder[i])) >= 2
       /\ \E d \in Donors(popOrder[i]) : Donors(d) # {}

(* ------------------ FD8 flow accumulation: shared parts ---------------- *)
\* The accumulation values are held as exact fractions in lowest terms.
GCD(a, b) ==
  LET gcd[x \in Int, y \in Int] == IF y = 0 THEN x ELSE gcd[y, x % y]
  IN  gcd[a, b]
Rat(n, d) ==
  LET reduce[x \in Int, y \in Int] ==
        [n |-> x \div GCD(x, y), d |-> y \div GCD(x, y)]
  IN  reduce[n, d]
RatAdd(a, b) == Rat(a.n * b.d + b.n * a.d, a.d * b.d)
RatMul(a, b) == Rat(a.n * b.n, a.d * b.d)

\* j: the number of valid neighbours above the cell.
FD8InflowCount(g, c) ==
  Cardinality({n \in 1 .. 8 :
    LET zN == FlowValue(g, c[1] + dY[n], c[2] + dX[n])
    IN  zN > g[c] /\ zN # NoData})

\* downslope[n] and weights[n] = (z - zN)^power, power = 2.
FD8Downslope(g, c, n) ==
  LET zN == FlowValue(g, c[1] + dY[n], c[2] + dX[n])
  IN  zN < g[c] /\ zN # NoData
FD8Weight(g, c, n) ==
  LET zN == FlowValue(g, c[1] + dY[n], c[2] + dX[n])
  IN  IF FD8Downslope(g, c, n) THEN (g[c] - zN) * (g[c] - zN) ELSE 0
RECURSIVE FD8TotalWeights(_, _, _)
FD8TotalWeights(g, c, n) ==
  IF n > 8 THEN 0 ELSE FD8Weight(g, c, n) + FD8TotalWeights(g, c, n + 1)
\* faValue * (weights[n] / totalWeights)
FD8Share(faValue, weight, totalWeights) ==
  RatMul(faValue, Rat(weight, totalWeights))
\* The first downslope direction from n on; 9 when there is none.
RECURSIVE FD8NextDownslope(_, _, _)
FD8NextDownslope(g, c, n) ==
  IF n > 8 \/ FD8Downslope(g, c, n) THEN n ELSE FD8NextDownslope(g, c, n + 1)

\* The byte arithmetic of the inflow counts.
ByteDec(v) == (v + 255) % 256

(* ----------------------- FD8, sequential branch ------------------------ *)
\* Loop 1 of 2: inflow counts, the queue of the cells without inflow, and
\* the output initialised to 1 (nodata where the DEM has nodata).  The
\* source scans one row past the grid, where every read gives nodata and
\* every write is ignored.
RECURSIVE SeqInitScan(_, _, _)
SeqInitScan(g, st, idx) ==
  IF idx >= FRows * FCols THEN st
  ELSE
    LET c == CellAt(idx)
        j == FD8InflowCount(g, c)
        st2 ==
          IF g[c] # NoData
            THEN [st EXCEPT !.numInflowing[c] = j,
                            !.q = IF j = 0 THEN Append(@, c) ELSE @,
                            !.pushes[c] = IF j = 0 THEN @ + 1 ELSE @]
            ELSE [st EXCEPT !.outputData[c] = Rat(NoData, 1)]
    IN  SeqInitScan(g, st2, idx + 1)

\* The neighbour loop of a popped cell: Increment, Decrement, then the push
\* of a receiver whose count reads zero.
RECURSIVE SeqDistribute(_, _, _, _, _)
SeqDistribute(g, st, c, faValue, n) ==
  IF n > 8 THEN st
  ELSE IF ~FD8Downslope(g, c, n) THEN SeqDistribute(g, st, c, faValue, n + 1)
  ELSE
    LET t == Neighbour(c, n)
        st1 == [st EXCEPT
                  !.outputData[t] = RatAdd(@, FD8Share(faValue, FD8Weight(g, c, n),
                                                     FD8TotalWeights(g, c, 1))),
                  !.numInflowing[t] = ByteDec(@)]
        st2 == IF st1.numInflowing[t] = 0
                 THEN [st1 EXCEPT !.q = Append(@, t), !.pushes[t] = @ + 1]
                 ELSE st1
    IN  SeqDistribute(g, st2, c, faValue, n + 1)

\* Loop 2 of 2, run until the queue is empty.
RECURSIVE SeqMainLoop(_, _)
SeqMainLoop(g, st) ==
  IF Len(st.q) = 0 THEN st
  ELSE LET c == Head(st.q)
           st1 == [st EXCEPT !.q = Tail(@), !.pops[c] = @ + 1]
       IN  SeqMainLoop(g, SeqDistribute(g, st1, c, st.outputData[c], 1))

\* The state in which the sequential branch leaves its main loop.
FD8Sequential(g) ==
  SeqMainLoop(g, SeqInitScan(g,
    [numInflowing |-> [c \in FlowCells |-> 0],
     outputData |-> [c \in FlowCells |-> Rat(1, 1)],
     q |-> <<>>,
     pushes |-> [c \in FlowCells |-> 0],
     pops |-> [c \in FlowCells |-> 0]], 0))

(* ------------------- SpecFD8: FD8, parallel branch --------------------- *)
Workers == 0 .. NumCPUs - 1
rowBlockSize == FRows \div NumCPUs

\* The row blocks of loop 1, in order; the k-th of them (from 0) goes to
\* worker k.
RECURSIVE RowBlocks(_)
RowBlocks(startingRow) ==
  IF startingRow >= FRows THEN <<>>
  ELSE LET e == startingRow + rowBlockSize
           endingRow == IF e >= FRows THEN FRows - 1 ELSE e
       IN  <<[rowSt |-> startingRow, rowEnd |-> endingRow]>>
             \o RowBlocks(endingRow + 1)

\* The FIFO worker k passes to qg.length, qg.pop and, in loop 1, qg.push.
OwnQueue(k) == k
\* The FIFO worker k pushes a released receiver onto.
ReceiverQueueNext(k) == (k + 1) % NumCPUs
ReceiverQueue(k) == k

\* mutexFloat64.increment and mutexByte.decrementAndReturn, under the lock.
ParIncrementLost(out, t, v) == [out EXCEPT ![t] = v]
ParIncrement(out, t, v) == [out EXCEPT ![t] = RatAdd(@, v)]
DecrementAndReturn(ninf, t) == ByteDec(ninf[t])

\* A receiver is pushed when the decrement returned zero.
FD8ReleasedAtOne(p) == p <= 1
FD8ReleasedNever(p) == FALSE
FD8Released(p) == p = 0

\* A worker that is between cells holds nothing the run depends on.
IdleWorker(p) ==
  [pc |-> p, cell |-> <<0, 0>>, faValue |-> Rat(0, 1),
   weights |-> [n \in 1 .. 8 |-> 0], totalWeights |-> 0, n |-> 0]

\* Loop 1 of 2, the rows of one worker: counts and output rows are written
\* with SetRowData, cells without inflow go onto the worker's FIFO.
RECURSIVE ParScanRows(_, _, _, _, _)
ParScanRows(g, st, k, idx, last) ==
  IF idx > last THEN st
  ELSE
    LET c == CellAt(idx)
        j == FD8InflowCount(g, c)
        st2 ==
          IF g[c] # NoData
            THEN [st EXCEPT
                    !.numInflowing[c] = j,
                    !.outputData[c] = Rat(1, 1),
                    !.fq[OwnQueue(k)] = IF j = 0 THEN Append(@, c) ELSE @,
                    !.pushes[c] = IF j = 0 THEN @ + 1 ELSE @,
                    !.access = IF j = 0 THEN @ \cup {<<k, OwnQueue(k)>>} ELSE @]
            ELSE [st EXCEPT !.numInflowing[c] = 0,
                            !.outputData[c] = Rat(NoData, 1)]
    IN  ParScanRows(g, st2, k, idx + 1, last)

FD8ScanBlock(k) ==
  /\ tool = "fd8" /\ pc = "scan" /\ wk[k].pc = "scan"
  /\ UNCHANGED restVars
  /\ \E b \in {RowBlocks(0)[k + 1]} :
       \E st \in {ParScanRows(dem,
                     [numInflowing |-> numInflowing, outputData |-> outputData,
                      fq |-> fq, pushes |-> pushes, access |-> access],
                     k, b.rowSt * FCols, b.rowEnd * FCols + FCols - 1)} :
         /\ numInflowing' = st.numInflowing /\ outputData' = st.outputData
         /\ fq' = st.fq /\ pushes' = st.pushes /\ access' = st.access
  /\ wk' = [wk EXCEPT ![k] = IdleWorker("wait")]
  /\ UNCHANGED <<tool, pc, dem, flowdir, popOrder, poppedBy, floodAll>>

\* wg.Wait() after loop 1, then the workers of loop 2 are started.
FD8Barrier ==
  /\ tool = "fd8" /\ pc = "scan"
  /\ UNCHANGED restVars
  /\ \A k \in Workers : wk[k].pc \in {"wait", "none"}
  /\ pc' = "main"
  /\ wk' = [k \in Workers |-> IdleWorker("pop")]
  /\ UNCHANGED <<tool, dem, flowdir, numInflowing, fq, outputData, pushes,
                 popOrder, poppedBy, access, floodAll>>

\* for qg.length(k) > 0 { row, col = qg.pop(k); faValue = outputData.Value
FD8Pop(k) ==
  /\ tool = "fd8" /\ pc = "main" /\ wk[k].pc = "pop"
  /\ UNCHANGED restVars
  /\ access' = access \cup {<<k, OwnQueue(k)>>}
  /\ IF Len(fq[OwnQueue(k)]) > 0
       THEN LET c == Head(fq[OwnQueue(k)])
                n == FD8NextDownslope(dem, c, 1)
            IN  /\ fq' = [fq EXCEPT ![OwnQueue(k)] = Tail(@)]
                /\ poppedBy' = [poppedBy EXCEPT ![c] = Append(@, k)]
                /\ wk' = [wk EXCEPT ![k] =
                            IF n <= 8
                              THEN [pc |-> "inc", cell |-> c,
                                    faValue |-> outputData[c],
                                    weights |-> [m \in 1 .. 8 |-> FD8Weight(dem, c, m)],
                                    totalWeights |-> FD8TotalWeights(dem, c, 1),
                                    n |-> n]
                              ELSE IdleWorker("pop")]
       ELSE /\ wk' = [wk EXCEPT ![k] = IdleWorker("exit")]
            /\ UNCHANGED <<fq, poppedBy>>
  /\ UNCHANGED <<tool, pc, dem, flowdir, numInflowing, outputData, pushes,
                 popOrder, floodAll>>

\* outputData.Increment(r, c, faValue*(weights[n]/totalWeights))
FD8Increment(k) ==
  /\ tool = "fd8" /\ pc = "main" /\ wk[k].pc = "inc"
  /\ UNCHANGED restVars
  /\ \E out \in {ParIncrement(outputData, Neighbour(wk[k].cell, wk[k].n),
                     FD8Share(wk[k].faValue, wk[k].weights[wk[k].n],
                              wk[k].totalWeights))} :
       outputData' = out
  /\ wk' = [wk EXCEPT ![k] = [@ EXCEPT !.pc = "dec"]]
  /\ UNCHANGED <<tool, pc, dem, flowdir, numInflowing, fq, pushes, popOrder,
                 poppedBy, access, floodAll>>

\* p := numInflowing.DecrementAndReturn(r, c, 1); if p == 0 { qg.push(r, c, k) }
FD8Decrement(k) ==
  /\ tool = "fd8" /\ pc = "main" /\ wk[k].pc = "dec"
  /\ UNCHANGED restVars
  /\ LET t == Neighbour(wk[k].cell, wk[k].n)
         p == DecrementAndReturn(numInflowing, t)
         n2 == FD8NextDownslope(dem, wk[k].cell, wk[k].n + 1)
     IN  /\ numInflowing' = [numInflowing EXCEPT ![t] = p]
         /\ IF FD8Released(p)
              THEN /\ fq' = [fq EXCEPT ![ReceiverQueue(k)] = Append(@, t)]
                   /\ pushes' = [pushes EXCEPT ![t] = @ + 1]
                   /\ access' = access \cup {<<k, ReceiverQueue(k)>>}
              ELSE UNCHANGED <<fq, pushes, access>>
         /\ wk' = [wk EXCEPT ![k] =
                     IF n2 <= 8 THEN [@ EXCEPT !.pc = "inc", !.n = n2]
                                ELSE IdleWorker("pop")]
  /\ UNCHANGED <<tool, pc, dem, flowdir, outputData, popOrder, poppedBy,
                 floodAll>>

\* wg.Wait() after loop 2.
FD8Done ==
  /\ tool = "fd8" /\ pc = "main"
  /\ UNCHANGED restVars
  /\ \A k \in Workers : wk[k].pc = "exit"
  /\ pc' = "done"
  /\ UNCHANGED <<tool, dem, flowdir, flowVars, floodAll>>

InitFD8 ==
  /\ RestUnused
  /\ tool = "fd8" /\ pc = "scan"
  /\ dem \in FlowDEMs
  /\ flowdir = <<>> /\ popOrder = <<>>
  /\ numInflowing = [c \in FlowCells |-> 0]
  /\ outputData = [c \in FlowCells |-> Rat(0, 1)]
  /\ fq = [k \in Workers |-> <<>>]
  /\ wk = [k \in Workers |->
             IdleWorker(IF k < Len(RowBlocks(0)) THEN "scan" ELSE "none")]
  /\ pushes = [c \in FlowCells |-> 0]
  /\ poppedBy = [c \in FlowCells |-> <<>>]
  /\ access = {}
  /\ FloodUnused

NextFD8 ==
  \/ \E k \in Workers :
       FD8ScanBlock(k) \/ FD8Pop(k) \/ FD8Increment(k) \/ FD8Decrement(k)
  \/ FD8Barrier
  \/ FD8Done
SpecFD8 == InitFD8 /\ [][NextFD8]_vars

\* The fair behaviours: the Go scheduler lets every started goroutine that
\* can take a step take it, and the main goroutine return from wg.Wait().
WorkerStep(k) ==
  FD8ScanBlock(k) \/ FD8Pop(k) \/ FD8Increment(k) \/ FD8Decrement(k)
SpecFD8Fair ==
  /\ SpecFD8
  /\ \A k \in Workers : WF_vars(WorkerStep(k))
  /\ WF_vars(FD8Barrier) /\ WF_vars(FD8Done)

\* The valid neighbours above c: the cells that pass accumulation to c.
Uphill(c) ==
  {d \in FlowCells : \E n \in 1 .. 8 : Neighbour(d, n) = c /\ FD8Downslope(dem, d, n)}
\* c received from cells popped by two different workers.
FedByTwoWorkers(c) ==
  \E d1, d2 \in Uphill(c) : poppedBy[d1] = <<0>> /\ poppedBy[d2] = <<1>>

\* C7: in parallel FD8 a cell has been pushed (once) exactly when it is
\* valid and its inflow count is zero, whether it was zero in loop 1 or was
\* brought to zero by a decrement; and when all workers have exited, the
\* set of cells pushed is the set the sequential branch pushes.
C7_EnqueuedIffInflowZero ==
  (tool = "fd8" /\ pc \in {"main", "done"}) =>
    /\ \A c \in FlowCells :
         pushes[c] = (IF dem[c] # NoData /\ numInflowing[c] = 0 THEN 1 ELSE 0)
    /\ pc = "done" =>
         {c \in FlowCells : pushes[c] > 0}
           = {c \in FlowCells : FD8Sequential(dem).pushes[c] > 0}

\* A completed run in which a cell was released by decrements made by two
\* different workers.
C7_Witness ==
  /\ tool = "fd8" /\ pc = "done"
  /\ \E c \in FlowCells :
       FD8InflowCount(dem, c) >= 2 /\ pushes[c] = 1 /\ FedByTwoWorkers(c)

\* C8: when all workers have exited, every cell's accumulation is the value
\* the sequential branch computes for it, as exact fractions.
C8_ParallelEqualsSequential ==
  (tool = "fd8" /\ pc = "done") =>
    outputData = FD8Sequential(dem).outputData

\* A completed run in which a cell received fractional shares from cells
\* popped by two different workers.
C8_Witness ==
  /\ tool = "fd8" /\ pc = "done"
  /\ \E c \in FlowCells : outputData[c].d > 1 /\ FedByTwoWorkers(c)

\* C9: every access to a FIFO of the queue group (length, pop, push) is
\* made by the worker of the same index, so no FIFO has two accessors.
C9_FifoAccessedByOwnerOnly ==
  tool = "fd8" =>
    \A a, b \in access :
      /\ a[1] = a[2]
      /\ a[2] = b[2] => a[1] = b[1]

\* Both FIFOs in use, and worker 1 has popped a cell of worker 0's rows,
\* which it had pushed onto its own FIFO.
C9_Witness ==
  /\ tool = "fd8" /\ pc = "done"
  /\ access = {<<0, 0>>, <<1, 1>>}
  /\ \E c \in FlowCells :
       c[1] <= RowBlocks(0)[1].rowEnd /\ poppedBy[c] = <<1>>

\* C10: under fair scheduling the parallel main pass ends with all workers
\* exited; no cell is ever popped twice, and once all workers have exited
\* every valid cell has been popped exactly once and no nodata cell at all.
C10_TerminatesEachCellOnce ==
  /\ <>(tool = "fd8" /\ pc = "done")
  /\ [](\A c \in FlowCells : Len(poppedBy[c]) <= 1)
  /\ [](pc = "done" =>
         \A c \in FlowCells :
           Len(poppedBy[c]) = (IF dem[c] # NoData THEN 1 ELSE 0))

\* Worker 1 has exited on finding its FIFO empty while worker 0 is still
\* distributing a cell whose receivers are not yet released.
C10_Witness ==
  /\ tool = "fd8" /\ pc = "main"
  /\ wk[1].pc = "exit" /\ wk[0].pc = "inc"
  /\ \E c \in FlowCells : dem[c] # NoData /\ pushes[c] = 0

\* C14: when the streams grid's row or column count differs from the DEM's,
\* the stream-aware breaching run ends before any cell is queued or modified
\* and never reaches the creation and saving of the output raster.
C14_NonConformantStreamsAbort ==
  (tool = "streams" /\ DOMAIN streams # Cells) =>
    /\ pc \in {"init", "abort"}
    /\ pq = NewPQueue /\ pushCount = 0
    /\ output = EmptyGrid(NoData) /\ inQueue = EmptyGrid(FALSE)
    /\ pits = EmptyGrid(FALSE) /\ flowdir = EmptyGrid(0)
    /\ numPits = 0 /\ numSolvedCells = 0

\* A run that has returned on a streams grid one column short of the DEM.
C14_Witness ==
  /\ tool = "streams" /\ pc = "abort"
  /\ DOMAIN streams = (0 .. Rows - 1) \X (0 .. Cols - 2)

(* ------------- SpecLib: calls into the raster library ------------------ *)
\* The grids of the library calls: rows x columns, cell (row, column)
\* holding its cell number plus one, so that every cell's value is its own
\* and none is nodata.
LibGrids ==
  {[Rows |-> r, Columns |-> c, reflectAtBoundaries |-> b,
    data |-> [i \in 0 .. r * c - 1 |-> i + 1]] :
     r \in 1 .. LibMaxDim, c \in 1 .. LibMaxDim, b \in BOOLEAN}
LibIndices == (0 - LibReach) .. LibReach

InRaster(rows, columns, row, column) ==
  column >= 0 /\ column < columns /\ row >= 0 /\ row < rows

\* Raster.Value: the cell's value, nodata off the grid, or with reflection
\* the value at the index after the four mirroring tests, taken in turn.
RasterValue(r, row, column) ==
  IF InRaster(r.Rows, r.Columns, row, column)
    THEN r.data[row * r.Columns + column]
  ELSE IF ~r.reflectAtBoundaries THEN NoData
  ELSE
    LET row1 == IF row < 0 THEN 0 - row - 1 ELSE row
        row2 == IF row1 >= r.Rows THEN r.Rows - (row1 - r.Rows) - 1 ELSE row1
        column1 == IF column < 0 THEN 0 - column - 1 ELSE column
        column2 == IF column1 >= r.Columns
                     THEN r.Columns - (column1 - r.Columns) - 1 ELSE column1
    IN  IF InRaster(r.Rows, r.Columns, row2, column2)
          THEN r.data[row2 * r.Columns + column2]
          ELSE NoData

\* RectangularArrayFloat64.Value: no reflection.
ArrayValue(r, row, column) ==
  IF InRaster(r.Rows, r.Columns, row, column)
    THEN r.data[row * r.Columns + column]
    ELSE NoData

LibRasterValue ==
  /\ tool = "lib" /\ pc = "call" /\ pc' = "ret"
  /\ \E r \in LibGrids, row \in LibIndices, column \in LibIndices :
       /\ call' = [op |-> "Raster.Value", r |-> r, row |-> row, column |-> column]
       /\ ret' = RasterValue(r, row, column)
  /\ UNCHANGED <<tool, dem, flowdir, med, files, rd, bd, post, flowVars, floodAll>>

LibArrayValue ==
  /\ tool = "lib" /\ pc = "call" /\ pc' = "ret"
  /\ \E r \in LibGrids, row \in LibIndices, column \in LibIndices :
       /\ call' = [op |-> "Array.Value", r |-> r, row |-> row, column |-> column]
       /\ ret' = ArrayValue(r, row, column)
  /\ UNCHANGED <<tool, dem, flowdir, med, files, rd, bd, post, flowVars, floodAll>>

\* ---- integral images of DeviationFromMean and MaximumElevationDeviation
\* The input rasters of the neighbourhood statistics.
BoxGrids ==
  UNION {{[rows |-> r, columns |-> c, z |-> f] :
            f \in [(0 .. r - 1) \X (0 .. c - 1) -> {NoData} \cup (0 .. BoxMaxElev)]} :
         r \in 1 .. BoxMaxRows, c \in 1 .. BoxMaxCols}
BoxValid(g) == {p \in DOMAIN g.z : g.z[p] # NoData}

RECURSIVE SetMin(_)
SetMin(S) ==
  LET x == CHOOSE y \in S : TRUE
  IN  IF S = {x} THEN x
      ELSE LET rest == SetMin(S \ {x}) IN IF x < rest THEN x ELSE rest
RECURSIVE SetMax(_)
SetMax(S) ==
  LET x == CHOOSE y \in S : TRUE
  IN  IF S = {x} THEN x
      ELSE LET rest == SetMax(S \ {x}) IN IF x > rest THEN x ELSE rest

\* z - k with k = minValue + valueRange/2, doubled to stay in the integers;
\* a nodata cell counts as 0.
Centred(g, p) ==
  LET vals == {g.z[q] : q \in BoxValid(g)}
  IN  IF g.z[p] = NoData THEN 0 ELSE 2 * g.z[p] - (SetMin(vals) + SetMax(vals))

\* The running sums of one row up to a column, then the integral images
\* I[row][col] and IN[row][col]: the row's running sum plus the entry above.
RECURSIVE RowSum(_, _, _)
RowSum(g, row, col) ==
  IF col < 0 THEN 0 ELSE Centred(g, <<row, col>>) + RowSum(g, row, col - 1)
RECURSIVE RowN(_, _, _)
RowN(g, row, col) ==
  IF col < 0 THEN 0
  ELSE (IF g.z[<<row, col>>] # NoData THEN 1 ELSE 0) + RowN(g, row, col - 1)
RECURSIVE IntegralSum(_, _, _)
IntegralSum(g, row, col) ==
  RowSum(g, row, col) + (IF row > 0 THEN IntegralSum(g, row - 1, col) ELSE 0)
RECURSIVE IntegralN(_, _, _)
IntegralN(g, row, col) ==
  RowN(g, row, col) + (IF row > 0 THEN IntegralN(g, row - 1, col) ELSE 0)

\* "if y < 0 { y = 0 }; if y >= rows { y = rows - 1 }"
Clamp(y, n) ==
  LET y0 == IF y < 0 THEN 0 ELSE y IN IF y0 >= n THEN n - 1 ELSE y0

\* The box corners: DeviationFromMean starts the box at row - size,
\* MaximumElevationDeviation at row - neighbourhood - 1.
BoxCorners(op, g, row, col, size) ==
  LET before == IF op = "MaximumElevationDeviation" THEN 1 ELSE 0
  IN  [y1 |-> Clamp(row - size - before, g.rows),
       y2 |-> Clamp(row + size, g.rows),
       x1 |-> Clamp(col - size - before, g.columns),
       x2 |-> Clamp(col + size, g.columns)]

\* N = IN[y2][x2] + IN[y1][x1] - IN[y1][x2] - IN[y2][x1], and sum likewise.
BoxN(g, b) ==
  IntegralN(g, b.y2, b.x2) + IntegralN(g, b.y1, b.x1)
    - IntegralN(g, b.y1, b.x2) - IntegralN(g, b.y2, b.x1)
BoxSum(g, b) ==
  IntegralSum(g, b.y2, b.x2) + IntegralSum(g, b.y1, b.x1)
    - IntegralSum(g, b.y1, b.x2) - IntegralSum(g, b.y2, b.x1)

\* The statistics of one valid cell at one neighbourhood size.
LibBoxStats ==
  /\ tool = "lib" /\ pc = "call" /\ pc' = "ret"
  /\ \E op \in {"DeviationFromMean", "MaximumElevationDeviation"},
        g \in BoxGrids, size \in 0 .. MaxRadius :
       \E p \in BoxValid(g) :
         LET b == BoxCorners(op, g, p[1], p[2], size)
         IN  /\ call' = [op |-> op, g |-> g, row |-> p[1], col |-> p[2],
                         size |-> size]
             /\ ret' = [N |-> BoxN(g, b), sum |-> BoxSum(g, b)]
  /\ UNCHANGED <<tool, dem, flowdir, med, files, rd, bd, post, flowVars, floodAll>>

\* ---- raster formats: DetermineRasterFormat and CreateNewRaster
RT_UnknownRaster == 0
RT_ArcGisBinaryRaster == 1
RT_ArcGisAsciiRaster == 2
RT_GeoTiff == 3
RT_WhiteboxRaster == 4
RT_GrassAsciiRaster == 5
RT_IdrisiRaster == 8
rasterExtensionList ==
  [i \in 0 .. 8 |->
     CASE i = 0 -> {".*"}
       [] i = 1 -> {".flt", ".hdr"}
       [] i = 2 -> {".txt", ".asc"}
       [] i = 3 -> {".tif", ".tiff"}
       [] i = 4 -> {".tas", ".dep"}
       [] i = 5 -> {".txt"}
       [] i = 6 -> {".grd"}
       [] i = 7 -> {".sdat", ".sgrd"}
       [] i = 8 -> {".rst", ".rdc"}]
\* The files a format is asked for: extension, whether the file exists, and
\* what the first six lines of an existing .txt file look like.
FileNames ==
  [ext : {".flt", ".txt", ".asc", ".tif", ".dep", ".grd", ".sdat", ".rst", ".xyz"},
   exists : BOOLEAN, contents : {"arcgis", "grass", "other"}]

\* list: the formats whose extension list holds the file's extension, in
\* the order of rasterExtensionList.
RECURSIVE FormatList(_, _)
FormatList(ext, i) ==
  IF i > 8 THEN <<>>
  ELSE (IF ext \in rasterExtensionList[i] THEN <<i>> ELSE <<>>)
         \o FormatList(ext, i + 1)
LastEntry(list) == list[Len(list)]
FirstEntry(list) == list[1]

DetermineRasterFormat(f) ==
  LET list == FormatList(f.ext, 0)
  IN  IF Len(list) = 0
        THEN [rt |-> RT_UnknownRaster, err |-> "UnsupportedRasterFormatError"]
      ELSE IF Len(list) = 1 THEN [rt |-> list[1], err |-> "nil"]
      ELSE IF f.exists
        THEN IF f.ext = ".txt" /\ f.contents = "arcgis"
               THEN [rt |-> RT_ArcGisAsciiRaster, err |-> "nil"]
             ELSE IF f.ext = ".txt" /\ f.contents = "grass"
               THEN [rt |-> RT_GrassAsciiRaster, err |-> "nil"]
             ELSE [rt |-> RT_UnknownRaster, err |-> "nil"]
      ELSE [rt |-> FirstEntry(list), err |-> "MultipleRasterFormatError"]

\* The formats CreateNewRaster has a rasterData for.
Creatable ==
  {RT_ArcGisBinaryRaster, RT_ArcGisAsciiRaster, RT_WhiteboxRaster,
   RT_GrassAsciiRaster, RT_GeoTiff, RT_IdrisiRaster}

\* CreateNewRaster: the format, the error DetermineRasterFormat gave, and
\* how the call ends: a raster, an error, or the nil-interface panic of
\* InitializeRaster on a format without a case in the switch.
CreateNewRaster(f, rasterFormat, initOK) ==
  LET det == IF rasterFormat # RT_UnknownRaster
               THEN [rt |-> rasterFormat, err |-> "nil"]
               ELSE DetermineRasterFormat(f)
  IN  [format |-> det.rt, warning |-> det.err,
       result |->
         IF det.err = "UnsupportedRasterFormatError"
           THEN "UnsupportedRasterFormatError"
         ELSE IF det.rt \notin Creatable THEN "panic"
         ELSE IF ~initOK THEN "RasterInitializationError"
         ELSE "raster"]

LibDetermineRasterFormat ==
  /\ tool = "lib" /\ pc = "call" /\ pc' = "ret"
  /\ \E f \in FileNames :
       /\ call' = [op |-> "DetermineRasterFormat", f |-> f]
       /\ ret' = DetermineRasterFormat(f)
  /\ UNCHANGED <<tool, dem, flowdir, med, files, rd, bd, post, flowVars, floodAll>>

LibCreateNewRaster ==
  /\ tool = "lib" /\ pc = "call" /\ pc' = "ret"
  /\ \E f \in FileNames, rasterFormat \in 0 .. 8, initOK \in BOOLEAN :
       /\ call' = [op |-> "CreateNewRaster", f |-> f,
                   rasterFormat |-> rasterFormat, initOK |-> initOK]
       /\ ret' = CreateNewRaster(f, rasterFormat, initOK)
  /\ UNCHANGED <<tool, dem, flowdir, med, files, rd, bd, post, flowVars, floodAll>>

\* CreateRasterFromFile: rasterFormat is the RasterFormat of the config
\* (RT_UnknownRaster when there is none).  The call returns as soon as
\* DetermineRasterFormat gives an error or no format, with that error; a
\* format getRasterData has no case for leaves r.rd nil.
CreateRasterFromFile(f, rasterFormat) ==
  LET det == IF rasterFormat # RT_UnknownRaster
               THEN [rt |-> rasterFormat, err |-> "nil"]
               ELSE DetermineRasterFormat(f)
  IN  IF det.err # "nil" \/ det.rt = RT_UnknownRaster
        THEN [format |-> RT_UnknownRaster, backend |-> FALSE, result |-> det.err]
      ELSE IF det.rt \notin Creatable
        THEN [format |-> det.rt, backend |-> FALSE,
              result |-> "RasterInitializationError"]
      ELSE [format |-> det.rt, backend |-> TRUE, result |-> "nil"]

LibCreateRasterFromFile ==
  /\ tool = "lib" /\ pc = "call" /\ pc' = "ret"
  /\ \E f \in FileNames, rasterFormat \in 0 .. 8 :
       /\ call' = [op |-> "CreateRasterFromFile", f |-> f,
                   rasterFormat |-> rasterFormat]
       /\ ret' = CreateRasterFromFile(f, rasterFormat)
  /\ UNCHANGED <<tool, dem, flowdir, med, files, rd, bd, post, flowVars, floodAll>>

\* ---- the row partition of the parallel tools
\* Blocks of rowBlockSize rows, one worker too many when rows is no
\* multiple of the block size.
RECURSIVE RowPartitionExact(_, _, _)
RowPartitionExact(rows, numCPUs, startingRow) ==
  IF startingRow >= rows THEN <<>>
  ELSE LET size == IF rows \div numCPUs > 0 THEN rows \div numCPUs ELSE 1
           e == startingRow + size - 1
           endingRow == IF e >= rows THEN rows - 1 ELSE e
       IN  <<[rowSt |-> startingRow, rowEnd |-> endingRow]>>
             \o RowPartitionExact(rows, numCPUs, endingRow + 1)
\* "rowBlockSize := rows / numCPUs; for startingRow < rows { endingRow :=
\* startingRow + rowBlockSize; if endingRow >= rows { endingRow = rows - 1 };
\* go func(startingRow, endingRow, k); startingRow = endingRow + 1; k++ }":
\* the blocks handed to the workers k = 0, 1, ... in turn.
RECURSIVE RowPartition(_, _, _)
RowPartition(rows, numCPUs, startingRow) ==
  IF startingRow >= rows THEN <<>>
  ELSE LET e == startingRow + rows \div numCPUs
           endingRow == IF e >= rows THEN rows - 1 ELSE e
       IN  <<[rowSt |-> startingRow, rowEnd |-> endingRow]>>
             \o RowPartition(rows, numCPUs, endingRow + 1)

LibRowPartition ==
  /\ tool = "lib" /\ pc = "call" /\ pc' = "ret"
  /\ \E rows \in 0 .. PartMaxRows, numCPUs \in 1 .. PartMaxCPUs :
       /\ call' = [op |-> "RowPartition", rows |-> rows, numCPUs |-> numCPUs]
       /\ ret' = RowPartition(rows, numCPUs, 0)
  /\ UNCHANGED <<tool, dem, flowdir, med, files, rd, bd, post, flowVars, floodAll>>

\* ---- the progress report of a row scan
\* "progress = int(100.0 * row / rowsLessOne)": the constant takes the type
\* of row, so this is an integer division, which panics on a zero divisor.
RowProgress(row, rowsLessOne) ==
  IF rowsLessOne = 0 THEN [panic |-> TRUE, progress |-> 0]
  ELSE [panic |-> FALSE, progress |-> TruncDiv(100 * row, rowsLessOne)]

\* "for row = 0; row < rows; row++ { ...; progress = ... }": the last
\* progress computed, or the panic that ended the scan.
RECURSIVE RowScan(_, _, _)
RowScan(rows, row, last) ==
  IF row >= rows \/ last.panic THEN last
  ELSE RowScan(rows, row + 1, RowProgress(row, rows - 1))

\* Loop 1 of D8FlowAccumulation.Run on a raster of the given number of rows.
LibRowScan ==
  /\ tool = "lib" /\ pc = "call" /\ pc' = "ret"
  /\ \E rows \in 1 .. LibMaxDim :
       /\ call' = [op |-> "RowScan", rows |-> rows]
       /\ ret' = RowScan(rows, 0, [panic |-> FALSE, progress |-> 0])
  /\ UNCHANGED <<tool, dem, flowdir, med, files, rd, bd, post, flowVars, floodAll>>

\* ---- D8FlowAccumulation.Run on the rasters [5,4,3,2,1] of one or two rows
D8StripMaxRows == 2
D8StripMaxCols == 5
D8StripDEM(rows, columns) ==
  [p \in (0 .. rows - 1) \X (0 .. columns - 1) |-> 5 - p[2]]

\* Loop 1: the flow direction of a cell, 0 when no neighbour is lower.
D8StripDir(g, p) ==
  LET b == D8Steepest(g, p[1], p[2], 1, [has |-> FALSE, diff |-> 0, dir |-> 0])
  IN  IF g[p] # NoData /\ b.has /\ b.diff > 0 THEN b.dir ELSE 0

\* Loop 2: the cells without inflow, in the order of the row scan.
RECURSIVE D8StripSeed(_, _, _, _)
D8StripSeed(g, ninf, columns, idx) ==
  IF idx >= Cardinality(DOMAIN g) THEN <<>>
  ELSE LET c == <<idx \div columns, idx % columns>>
       IN  (IF D8Seedable(g, ninf, c) THEN <<c>> ELSE <<>>)
             \o D8StripSeed(g, ninf, columns, idx + 1)

\* Loop 3: "for fq.count > 0", to its end.
RECURSIVE D8StripDrain(_, _, _, _)
D8StripDrain(fd, ninf, out, q) ==
  IF q = <<>> THEN out
  ELSE LET c == Head(q)
           t == Neighbour(c, fd[c])
       IN  IF fd[c] > 0
             THEN LET ninf2 == [ninf EXCEPT ![t] = @ - 1]
                  IN  D8StripDrain(fd, ninf2,
                                   [out EXCEPT ![t] = @ + out[c]],
                                   IF D8Released(ninf2, t)
                                     THEN Append(Tail(q), t) ELSE Tail(q))
             ELSE D8StripDrain(fd, ninf, out, Tail(q))

\* The whole run: loop 1 ends in a panic when the progress division does,
\* and nothing is written; otherwise the accumulation grid is the result.
D8StripRun(g, rows, columns) ==
  LET fd == [p \in DOMAIN g |-> D8StripDir(g, p)]
      ninf == [p \in DOMAIN g |->
                 Cardinality({q \in DOMAIN g :
                                fd[q] > 0 /\ Neighbour(q, fd[q]) = p})]
  IN  IF RowScan(rows, 0, [panic |-> FALSE, progress |-> 0]).panic
        THEN [panic |-> TRUE, flowdir |-> <<>>, accumulation |-> <<>>]
        ELSE [panic |-> FALSE, flowdir |-> fd,
              accumulation |->
                D8StripDrain(fd, ninf, [p \in DOMAIN g |-> 1],
                             D8StripSeed(g, ninf, columns, 0))]

LibD8Strip ==
  /\ tool = "lib" /\ pc = "call" /\ pc' = "ret"
  /\ \E rows \in 1 .. D8StripMaxRows, columns \in 1 .. D8StripMaxCols :
       /\ call' = [op |-> "D8FlowAccumulation", rows |-> rows, columns |-> columns,
                   g |-> D8StripDEM(rows, columns)]
       /\ ret' = D8StripRun(D8StripDEM(rows, columns), rows, columns)
  /\ UNCHANGED <<tool, dem, flowdir, med, files, rd, bd, post, flowVars, floodAll>>

\* ---- BreachDepressions.ParseArguments and the guard of the filling pass
\* strconv.ParseBool
ParseBool(str) ==
  IF str \in {"1", "t", "T", "TRUE", "true", "True"}
    THEN [err |-> FALSE, b |-> TRUE]
  ELSE IF str \in {"0", "f", "F", "FALSE", "false", "False"}
    THEN [err |-> FALSE, b |-> FALSE]
  ELSE [err |-> TRUE, b |-> FALSE]

\* strconv.ParseFloat on the argument strings of the model.
ArgNumbers == {"-1", "2", "3"}
ParseArgNumber(str) ==
  IF str \in ArgNumbers
    THEN [err |-> FALSE,
          x |-> CASE str = "-1" -> -1 [] str = "2" -> 2 [] str = "3" -> 3]
    ELSE [err |-> TRUE, x |-> 0]

\* The argument lists: six strings, the DEM file present or not.
ArgLists ==
  [exists : BOOLEAN,
   MaxDepth : {"-1", "2", "not specified"},
   MaxLength : {"-1", "3", ""},
   ConstrainedBreaching : {"true", "false", "x"},
   SubsequentFilling : {"true", "false", "not specified"}]

\* ParseArguments: the fields of the tool when Run is called (ran), or the
\* tool as it was when the DEM file is missing.  this: the tool object of
\* the plugin manager, as earlier runs left it.  math.MaxFloat32 is POS_INF.
ParseArguments(args, this) ==
  IF ~args.exists THEN [this EXCEPT !.ran = FALSE]
  ELSE
    [ran |-> TRUE,
     maxDepth |->
       IF args.MaxDepth # "" /\ args.MaxDepth # "not specified"
         THEN IF ParseArgNumber(args.MaxDepth).err THEN POS_INF
              ELSE IF ParseArgNumber(args.MaxDepth).x < 0 THEN POS_INF
              ELSE ParseArgNumber(args.MaxDepth).x
         ELSE POS_INF,
     maxLength |->
       IF args.MaxLength # "" /\ args.MaxLength # "not specified"
         THEN IF ParseArgNumber(args.MaxLength).err THEN MaxInt32
              ELSE IF ParseArgNumber(args.MaxLength).x < 0 THEN MaxInt32
              ELSE ParseArgNumber(args.MaxLength).x
         ELSE MaxInt32,
     constrainedBreaching |->
       IF args.ConstrainedBreaching # ""
            /\ args.ConstrainedBreaching # "not specified"
         THEN ParseBool(args.ConstrainedBreaching).b
         ELSE FALSE,
     postBreachFilling |-> this.postBreachFilling]

\* "if needsFilling && this.postBreachFilling": whether the filling pass runs.
FillingPassRuns(this, needsFilling) ==
  this.ran /\ needsFilling /\ this.postBreachFilling

\* A run from an argument list.  needsFilling: whether the breaching left a
\* pit unbreached.
LibParseArguments ==
  /\ tool = "lib" /\ pc = "call" /\ pc' = "ret"
  /\ \E args \in ArgLists, needsFilling \in BOOLEAN, before \in BOOLEAN :
       LET this == [ran |-> FALSE, maxDepth |-> 0, maxLength |-> 0,
                    constrainedBreaching |-> FALSE,
                    postBreachFilling |-> before]
       IN  /\ call' = [op |-> "ParseArguments", args |-> args, this |-> this,
                       needsFilling |-> needsFilling]
           /\ ret' = [this |-> ParseArguments(args, this),
                      filling |-> FillingPassRuns(ParseArguments(args, this),
                                                  needsFilling)]
  /\ UNCHANGED <<tool, dem, flowdir, med, files, rd, bd, post, flowVars, floodAll>>

\* ---- structures.PQueue: an integer-priority heap with an ordering kind
\* items[0] of the source, always nil, is left out: items[k] is position k.
\* The comparators max and min, kept by NewPQueue in the queue; swim and
\* sink compare the priorities themselves.
StructuresMax(i, j) == i < j
StructuresMin(i, j) == i > j
StructuresNewPQueue(pqType) ==
  [items |-> <<>>, elemsCount |-> 0,
   comparator |-> IF pqType = MAXPQ THEN "max" ELSE "min"]
StructuresSwap(q, i, j) ==
  [q EXCEPT !.items = [q.items EXCEPT ![i] = q.items[j], ![j] = q.items[i]]]
RECURSIVE StructuresSwim(_, _)
StructuresSwim(q, k) ==
  IF k > 1 /\ q.items[k \div 2].priority < q.items[k].priority
    THEN StructuresSwim(StructuresSwap(q, k \div 2, k), k \div 2)
    ELSE q
RECURSIVE StructuresSink(_, _)
StructuresSink(q, k) ==
  IF 2 * k <= q.elemsCount
    THEN LET j0 == 2 * k
             j == IF j0 < q.elemsCount
                       /\ q.items[j0].priority < q.items[j0 + 1].priority
                    THEN j0 + 1 ELSE j0
         IN  IF ~(q.items[k].priority < q.items[j].priority) THEN q
             ELSE StructuresSink(StructuresSwap(q, k, j), j)
    ELSE q
StructuresPush(q, value, priority) ==
  StructuresSwim([q EXCEPT !.items = Append(q.items, [value |-> value,
                                                       priority |-> priority]),
                           !.elemsCount = q.elemsCount + 1],
                 q.elemsCount + 1)
\* Pop: the queue afterwards and the item taken (elemsCount >= 1).
StructuresPop(q) ==
  LET s == StructuresSwap(q, 1, q.elemsCount)
  IN  [item |-> q.items[1],
       q |-> StructuresSink([s EXCEPT !.items = SubSeq(s.items, 1, q.elemsCount - 1),
                                      !.elemsCount = q.elemsCount - 1], 1)]

\* The queue after pushing the priorities in order, the value of each item
\* being its place in the order; and the priorities popped until it is empty.
RECURSIVE StructuresPushAll(_, _, _)
StructuresPushAll(q, priorities, i) ==
  IF i > Len(priorities) THEN q
  ELSE StructuresPushAll(StructuresPush(q, i, priorities[i]), priorities, i + 1)
RECURSIVE StructuresPopAll(_)
StructuresPopAll(q) ==
  IF q.elemsCount < 1 THEN <<>>
  ELSE <<StructuresPop(q).item.priority>> \o StructuresPopAll(StructuresPop(q).q)

LibStructuresPQueue ==
  /\ tool = "lib" /\ pc = "call" /\ pc' = "ret"
  /\ \E pqType \in {MAXPQ, MINPQ}, n \in 1 .. MaxItems :
       \E priorities \in [1 .. n -> 1 .. MaxPriority] :
         /\ call' = [op |-> "structures.PQueue", pqType |-> pqType,
                     priorities |-> priorities]
         /\ ret' = StructuresPopAll(
                     StructuresPushAll(StructuresNewPQueue(pqType), priorities, 1))
  /\ UNCHANGED <<tool, dem, flowdir, med, files, rd, bd, post, flowVars, floodAll>>

InitLib ==
  /\ tool = "lib" /\ pc = "call"
  /\ dem = <<>> /\ flowdir = <<>>
  /\ FloodUnused /\ FlowUnused /\ RestUnused

NextLib ==
  \/ LibRasterValue \/ LibArrayValue \/ LibBoxStats
  \/ LibDetermineRasterFormat \/ LibCreateNewRaster \/ LibRowScan
  \/ LibCreateRasterFromFile \/ LibRowPartition
  \/ LibD8Strip \/ LibParseArguments \/ LibStructuresPQueue
SpecLib == InitLib /\ [][NextLib]_vars

(* ------------------- MaximumElevationDeviation.Run -------------------- *)
\* The input rasters: every row at one elevation of 0 .. BoxMaxElev, the
\* cell (2, 1) possibly nodata.
MedGrids ==
  {[rows |-> MedRows, columns |-> MedCols,
    z |-> [p \in (0 .. MedRows - 1) \X (0 .. MedCols - 1) |->
             IF hole /\ p = <<2, 1>> THEN NoData ELSE prof[p[1]]]] :
     prof \in [0 .. MedRows - 1 -> 0 .. BoxMaxElev], hole \in BOOLEAN}

\* I2[row][col]: the integral image of the squares of z - k.
RECURSIVE RowSumSqr(_, _, _)
RowSumSqr(g, row, col) ==
  IF col < 0 THEN 0
  ELSE Centred(g, <<row, col>>) * Centred(g, <<row, col>>)
         + RowSumSqr(g, row, col - 1)
RECURSIVE IntegralSumSqr(_, _, _)
IntegralSumSqr(g, row, col) ==
  RowSumSqr(g, row, col)
    + (IF row > 0 THEN IntegralSumSqr(g, row - 1, col) ELSE 0)
BoxSumSqr(g, b) ==
  IntegralSumSqr(g, b.y2, b.x2) + IntegralSumSqr(g, b.y1, b.x1)
    - IntegralSumSqr(g, b.y1, b.x2) - IntegralSumSqr(g, b.y2, b.x1)

\* "for startingRow < rows": the row blocks handed to the goroutines.
\* Row blocks that share their boundary rows: each block starts at the row
\* the block before it ended with.
RECURSIVE MedRowBlocksShared(_, _)
MedRowBlocksShared(rows, startingRow) ==
  IF startingRow >= rows - 1 THEN <<>>
  ELSE LET e == startingRow + rows \div NumCPUs
           endingRow == IF e >= rows THEN rows - 1 ELSE e
       IN  <<[rowSt |-> startingRow, rowEnd |-> endingRow]>>
             \o MedRowBlocksShared(rows, endingRow)
RECURSIVE MedRowBlocks(_, _)
MedRowBlocks(rows, startingRow) ==
  IF startingRow >= rows THEN <<>>
  ELSE LET e == startingRow + rows \div NumCPUs
           endingRow == IF e >= rows THEN rows - 1 ELSE e
       IN  <<[rowSt |-> startingRow, rowEnd |-> endingRow]>>
             \o MedRowBlocks(rows, endingRow + 1)

MedWorkers(rows) ==
  LET blocks == MedRowBlocks(rows, 0)
  IN  [j \in 1 .. Len(blocks) |->
         [pc |-> "cell", row |-> blocks[j].rowSt, col |-> 0,
          rowSt |-> blocks[j].rowSt, rowEnd |-> blocks[j].rowEnd,
          N |-> 0, sum |-> 0]]

\* v = (sumSqr - sum*sum/N) / N and outValue = ((z - k) - mean) / sqrt(v),
\* kept exactly as the sign of outValue and the fraction outValue^2:
\* outValue^2 = (N(z-k) - sum)^2 / (N*sumSqr - sum^2), and v > 0 exactly
\* when the denominator is positive.
MedOutValue(N, sum, sumSqr, zk) ==
  LET den == N * sumSqr - sum * sum
      num == N * zk - sum
  IN  IF N > 0 /\ den > 0
        THEN [ok |-> TRUE, neg |-> num < 0, sq |-> Rat(num * num, den)]
        ELSE [ok |-> FALSE, neg |-> FALSE, sq |-> Rat(0, 1)]

\* The deviation of a cell at one neighbourhood, as one goroutine alone
\* computes it.
MedDeviation(g, p, neighbourhood) ==
  LET b == BoxCorners("MaximumElevationDeviation", g, p[1], p[2], neighbourhood)
  IN  MedOutValue(BoxN(g, b), BoxSum(g, b), BoxSumSqr(g, b), Centred(g, p))

\* "for neighbourhood := min; neighbourhood <= max; neighbourhood += step"
MedNeighbourhoods ==
  {r \in minNeighbourhood .. maxNeighbourhood :
     (r - minNeighbourhood) % neighbourhoodStep = 0}

\* maxVal[row][col] = -math.MaxFloat32: below every absolute value.
MedNoMax == [has |-> FALSE, sq |-> Rat(0, 1)]
\* "math.Abs(outValue) > maxVal[row][col]"
MedExceeds(sq, max) == ~max.has \/ sq.n * max.sq.d > max.sq.n * sq.d

\* The worker moves to the next column; after the last column it reports
\* the row on c1 and moves to the next row of its block.
MedAdvance(m, j) ==
  LET w == m.w[j]
  IN  IF w.col + 1 < m.g.columns
        THEN [m EXCEPT !.w[j] = [w EXCEPT !.pc = "cell", !.col = w.col + 1]]
        ELSE [m EXCEPT !.rowsCompleted = m.rowsCompleted + 1,
                       !.w[j] = [w EXCEPT
                                   !.pc = IF w.row + 1 > w.rowEnd
                                            THEN "done" ELSE "cell",
                                   !.row = w.row + 1, !.col = 0]]

InitMED ==
  /\ tool = "med" /\ pc = "init"
  /\ dem = <<>> /\ flowdir = <<>>
  /\ FloodUnused /\ FlowUnused /\ RestUnused

\* The raster is read, the arrays are set up and the goroutines of the
\* first neighbourhood are started.  sumSqr is the variable of Run itself:
\* it leaves the integral image loop with the running sum of the last row.
MEDStart ==
  /\ tool = "med" /\ pc = "init" /\ pc' = "run"
  /\ \E g \in MedGrids :
       med' = [g |-> g, neighbourhood |-> minNeighbourhood,
               maxVal |-> [p \in DOMAIN g.z |-> MedNoMax],
               scaleVal |-> [p \in DOMAIN g.z |-> 0],
               sumSqr |-> RowSumSqr(g, g.rows - 1, g.columns - 1),
               w |-> MedWorkers(g.rows), rowsCompleted |-> 0,
               access |-> {},
               rout1 |-> <<>>, rout2 |-> <<>>]
  /\ UNCHANGED <<tool, dem, flowdir, call, ret, files, rd, bd, post, flowVars, floodAll>>

\* Goroutine j at a cell, up to and including the assignment to sumSqr.
MEDCell(j) ==
  /\ tool = "med" /\ pc = "run" /\ j \in DOMAIN med.w /\ med.w[j].pc = "cell"
  /\ LET w == med.w[j]
         b == BoxCorners("MaximumElevationDeviation", med.g, w.row, w.col,
                         med.neighbourhood)
         N == BoxN(med.g, b)
     IN  IF med.g.z[<<w.row, w.col>>] # NoData /\ N > 0
           THEN med' = [med EXCEPT
                          !.sumSqr = BoxSumSqr(med.g, b),
                          !.access = @ \cup {<<"sumSqr", j>>},
                          !.w[j] = [w EXCEPT !.pc = "var", !.N = N,
                                               !.sum = BoxSum(med.g, b)]]
           ELSE med' = MedAdvance(med, j)
  /\ UNCHANGED <<tool, pc, dem, flowdir, call, ret, files, rd, bd, post, flowVars, floodAll>>

\* Goroutine j reads sumSqr back for the variance and, when the deviation
\* exceeds the cell's maximum, keeps it with the signed neighbourhood.
MEDVar(j) ==
  /\ tool = "med" /\ pc = "run" /\ j \in DOMAIN med.w /\ med.w[j].pc = "var"
  /\ LET w == med.w[j]
         p == <<w.row, w.col>>
         out == MedOutValue(w.N, w.sum, med.sumSqr, Centred(med.g, p))
         m1 == [med EXCEPT !.access = @ \cup {<<"sumSqr", j>>}]
         m2 == IF out.ok /\ MedExceeds(out.sq, med.maxVal[p])
                 THEN [m1 EXCEPT
                         !.maxVal[p] = [has |-> TRUE, sq |-> out.sq],
                         !.scaleVal[p] = IF out.neg THEN 0 - med.neighbourhood
                                         ELSE med.neighbourhood]
                 ELSE m1
     IN  med' = MedAdvance(m2, j)
  /\ UNCHANGED <<tool, pc, dem, flowdir, call, ret, files, rd, bd, post, flowVars, floodAll>>

MedJoined ==
  /\ \A j \in DOMAIN med.w : med.w[j].pc = "done"
  /\ med.rowsCompleted = med.g.rows

\* wg.Wait has returned and another neighbourhood is to be tested.
MEDNextLoop ==
  /\ tool = "med" /\ pc = "run" /\ MedJoined
  /\ med.neighbourhood + neighbourhoodStep <= maxNeighbourhood
  /\ med' = [med EXCEPT !.neighbourhood = @ + neighbourhoodStep,
                        !.w = MedWorkers(med.g.rows), !.rowsCompleted = 0]
  /\ UNCHANGED <<tool, pc, dem, flowdir, call, ret, files, rd, bd, post, flowVars, floodAll>>

\* The two output rasters: the magnitude carries the sign, the scale is
\* written without it; a cell with no deviation stays nodata in both.
MedMagnitude(max, scale) ==
  IF ~max.has THEN [nodata |-> TRUE, neg |-> FALSE, sq |-> Rat(0, 1)]
  ELSE [nodata |-> FALSE, neg |-> scale < 0 /\ max.sq.n # 0, sq |-> max.sq]
MedScale(max, scale) ==
  IF ~max.has THEN NoData ELSE IF scale >= 0 THEN scale ELSE 0 - scale

MEDSave ==
  /\ tool = "med" /\ pc = "run" /\ MedJoined
  /\ med.neighbourhood + neighbourhoodStep > maxNeighbourhood
  /\ pc' = "done"
  /\ med' = [med EXCEPT
               !.rout1 = [p \in DOMAIN med.g.z |->
                            MedMagnitude(med.maxVal[p], med.scaleVal[p])],
               !.rout2 = [p \in DOMAIN med.g.z |->
                            MedScale(med.maxVal[p], med.scaleVal[p])]]
  /\ UNCHANGED <<tool, dem, flowdir, call, ret, files, rd, bd, post, flowVars, floodAll>>

NextMED ==
  \/ MEDStart
  \/ \E j \in 1 .. MedRows : MEDCell(j)
  \/ \E j \in 1 .. MedRows : MEDVar(j)
  \/ MEDNextLoop
  \/ MEDSave
SpecMED == InitMED /\ [][NextMED]_vars

(* ----------- SpecSave: arcGisAsciiRaster, save and reload -------------- *)
\* A float64 of the model: the decimal m / 10^k, with no trailing zero among
\* its k decimals.  strconv.FormatFloat(x, 'f', -1, 64) writes the shortest
\* decimal that reads back as x, which for such a value is the decimal itself.
Dec(m, k) == [m |-> m, k |-> k]
RECURSIVE Normal(_, _)
Normal(m, k) == IF k > 0 /\ m % 10 = 0 THEN Normal(m \div 10, k - 1) ELSE Dec(m, k)
RECURSIVE DigitsOf(_)
DigitsOf(n) == IF n < 10 THEN <<n>> ELSE DigitsOf(n \div 10) \o <<n % 10>>
DigitChars == <<"0", "1", "2", "3", "4", "5", "6", "7", "8", "9">>
UpperChars == <<"A", "C", "D", "E", "I", "L", "N", "O", "R", "S", "T", "U",
                "V", "W", "X", "Y", "Z">>
LowerChars == <<"a", "c", "d", "e", "i", "l", "n", "o", "r", "s", "t", "u",
                "v", "w", "x", "y", "z">>
DigitString(ds) == [i \in 1 .. Len(ds) |-> DigitChars[ds[i] + 1]]

\* strconv.FormatFloat(x, 'f', -1, 64)
FormatFloat(x) ==
  LET ds == DigitsOf(IF x.m < 0 THEN 0 - x.m ELSE x.m)
      pad == [i \in 1 .. x.k + 1 - Len(ds) |-> 0]
      all == pad \o ds
  IN  (IF x.m < 0 THEN <<"-">> ELSE <<>>)
        \o DigitString(SubSeq(all, 1, Len(all) - x.k))
        \o (IF x.k > 0
              THEN <<".">> \o DigitString(SubSeq(all, Len(all) - x.k + 1, Len(all)))
              ELSE <<>>)

IsDigit(c) == \E d \in 0 .. 9 : DigitChars[d + 1] = c
DigitVal(c) == CHOOSE d \in 0 .. 9 : DigitChars[d + 1] = c
RECURSIVE DigitsValue(_, _)
DigitsValue(s, acc) ==
  IF s = <<>> THEN acc ELSE DigitsValue(Tail(s), 10 * acc + DigitVal(Head(s)))

\* strconv.ParseFloat(s, 64) on the decimal notation: a sign, digits, at most
\* one point.  A syntax error gives 0 and err.
ParseFloat(s) ==
  LET neg == s # <<>> /\ Head(s) = "-"
      body == IF s # <<>> /\ Head(s) \in {"-", "+"} THEN Tail(s) ELSE s
      dots == {i \in 1 .. Len(body) : body[i] = "."}
      dot == IF dots = {} THEN Len(body) + 1
             ELSE CHOOSE i \in dots : \A j \in dots : i <= j
      ip == SubSeq(body, 1, dot - 1)
      fp == SubSeq(body, dot + 1, Len(body))
      ok == /\ Cardinality(dots) <= 1
            /\ Len(ip) + Len(fp) > 0
            /\ \A i \in 1 .. Len(body) : i \in dots \/ IsDigit(body[i])
      mant == DigitsValue(ip \o fp, 0)
  IN  IF ok THEN [err |-> FALSE,
                  x |-> Normal(IF neg THEN 0 - mant ELSE mant, Len(fp))]
      ELSE [err |-> TRUE, x |-> Dec(0, 0)]

\* strconv.Atoi
Atoi(s) ==
  LET p == ParseFloat(s)
  IN  IF p.err \/ p.x.k > 0 THEN [err |-> TRUE, n |-> 0]
      ELSE [err |-> FALSE, n |-> p.x.m]

\* strings.ToLower, strings.Contains, strings.TrimSpace and strings.Fields
\* on a string held as the sequence of its characters.
ToLower(str) ==
  [i \in 1 .. Len(str) |->
     IF \E j \in 1 .. Len(UpperChars) : UpperChars[j] = str[i]
       THEN LowerChars[CHOOSE j \in 1 .. Len(UpperChars) : UpperChars[j] = str[i]]
       ELSE str[i]]
Contains(str, substr) ==
  \E i \in 1 .. Len(str) - Len(substr) + 1 :
    SubSeq(str, i, i + Len(substr) - 1) = substr
RECURSIVE TrimSpace(_)
TrimSpace(str) ==
  IF str = <<>> THEN str
  ELSE IF Head(str) = " " THEN TrimSpace(Tail(str))
  ELSE IF str[Len(str)] = " " THEN TrimSpace(SubSeq(str, 1, Len(str) - 1))
  ELSE str
RECURSIVE FieldsScan(_, _, _)
FieldsScan(str, field, s) ==
  IF str = <<>> THEN (IF field = <<>> THEN s ELSE Append(s, field))
  ELSE IF Head(str) = " "
    THEN FieldsScan(Tail(str), <<>>, IF field = <<>> THEN s ELSE Append(s, field))
  ELSE FieldsScan(Tail(str), Append(field, Head(str)), s)
Fields(str) == FieldsScan(str, <<>>, <<>>)

\* The rasters of the save and reload: SaveRows x SaveCols cells, each one of
\* AsciiCellValues (1.5, -9999, 2.5, 3.5 and 0.25), and one wide raster, a
\* single row of WideCols cells at 10^-WideDecimals.  data is in row order.
AsciiCellValues == {Dec(15, 1), Dec(-9999, 0), Dec(25, 1), Dec(35, 1), Dec(25, 2)}
WideGrid ==
  [rows |-> 1, columns |-> WideCols,
   data |-> [i \in 1 .. WideCols |-> Dec(1, WideDecimals)]]
SaveGrids ==
  {[rows |-> SaveRows, columns |-> SaveCols, data |-> d] :
     d \in [1 .. SaveRows * SaveCols -> AsciiCellValues]} \cup {WideGrid}
outFile == "DeleteMe.asc"
\* The formats the source raster of the copy was read from.
SourceFormats == {RT_IdrisiRaster, RT_WhiteboxRaster, RT_ArcGisAsciiRaster}

\* The header keywords, character by character, and the padding after them.
HeaderKey(name) ==
  CASE name = "NCOLS" -> <<"N", "C", "O", "L", "S">>
    [] name = "NROWS" -> <<"N", "R", "O", "W", "S">>
    [] name = "XLLCORNER" -> <<"X", "L", "L", "C", "O", "R", "N", "E", "R">>
    [] name = "YLLCORNER" -> <<"Y", "L", "L", "C", "O", "R", "N", "E", "R">>
    [] name = "XLLCENTER" -> <<"X", "L", "L", "C", "E", "N", "T", "E", "R">>
    [] name = "YLLCENTER" -> <<"Y", "L", "L", "C", "E", "N", "T", "E", "R">>
    [] name = "CELLSIZE" -> <<"C", "E", "L", "L", "S", "I", "Z", "E">>
    [] name = "NODATA_VALUE" ->
         <<"N", "O", "D", "A", "T", "A", "_", "V", "A", "L", "U", "E">>

\* One data row of Save, values col to last: each value followed by a
\* space.  The string is put together by halves, which gives the string of
\* the loop "for col ... str += ..." without its depth.
RECURSIVE DataRow(_, _, _)
DataRow(values, col, last) ==
  IF col > last THEN <<>>
  ELSE IF col = last THEN FormatFloat(values[col]) \o <<" ">>
  ELSE LET mid == (col + last) \div 2
       IN  DataRow(values, col, mid) \o DataRow(values, mid + 1, last)

\* A line of a file is kept as what Save made its string from: the keyword
\* and the number of a header line, the numbers of a data row.  LineText is
\* the string itself, character by character, without the line end.
HeaderLine(name, value) == [key |-> name, values |-> <<value>>]
DataLine(values) == [key |-> "", values |-> values]
LineText(line) ==
  IF line.key # ""
    THEN HeaderKey(line.key) \o [i \in 1 .. 14 - Len(HeaderKey(line.key)) |-> " "]
           \o FormatFloat(line.values[1])
    ELSE TrimSpace(DataRow(line.values, 1, Len(line.values)))

\* The lines Save writes for r, in order: six header lines, then the rows.
\* strconv.Itoa of the two counts writes what FormatFloat writes for them.
\* The centre of the lower left cell is not computed here: the rasters of the
\* model are all made by InitializeRaster, which sets cellCornerMode.
SaveLines(r) ==
  << HeaderLine("NCOLS", Dec(r.columns, 0)),
     HeaderLine("NROWS", Dec(r.rows, 0)),
     HeaderLine(IF r.cellCornerMode THEN "XLLCORNER" ELSE "XLLCENTER", r.west),
     HeaderLine(IF r.cellCornerMode THEN "YLLCORNER" ELSE "YLLCENTER", r.south),
     HeaderLine("CELLSIZE", r.cellSize),
     HeaderLine("NODATA_VALUE", r.nodata) >>
    \o [row \in 1 .. r.rows |->
          DataLine([col \in 1 .. r.columns |->
                      r.data[(row - 1) * r.columns + col]])]

\* arcGisAsciiRaster.InitializeRaster: the header and the data array, every
\* cell at config.InitialValue.
InitializeRaster(fileName, rows, columns, west, south, cellSize) ==
  [fileName |-> fileName, columns |-> columns, rows |-> rows,
   numCells |-> rows * columns, west |-> west, south |-> south,
   cellCornerMode |-> TRUE, cellSize |-> cellSize,
   nodata |-> Dec(NoData, 0),
   data |-> [i \in 1 .. rows * columns |-> Dec(NoData, 0)], panic |-> FALSE]

\* The rasterData that SetFileName hands to ReadFile: a zero header, no data.
EmptyRaster(fileName) ==
  [fileName |-> fileName, columns |-> 0, rows |-> 0, numCells |-> 0,
   west |-> Dec(0, 0), south |-> Dec(0, 0), cellCornerMode |-> FALSE,
   cellSize |-> Dec(0, 0), nodata |-> Dec(0, 0), data |-> <<>>,
   panic |-> FALSE]

\* A header line of ReadFile: the first keyword the lowered line contains
\* decides which field takes the last word of the line.  The xllcenter and
\* yllcenter branches are left out: Save never writes them for a raster made
\* by InitializeRaster.  cellCornerMode is "xllcorner != 0".
ReadHeaderLine(r, str) ==
  LET s == Fields(str)
      last == s[Len(s)]
      has(name) == Contains(str, ToLower(HeaderKey(name)))
      alloc(q) == IF q.rows > 0 /\ q.columns > 0
                    THEN [q EXCEPT !.numCells = q.columns * q.rows,
                                   !.data = [i \in 1 .. q.columns * q.rows |->
                                               Dec(0, 0)]]
                    ELSE q
  IN  IF has("NCOLS")
        THEN IF Atoi(last).err THEN [r EXCEPT !.panic = TRUE]
             ELSE alloc([r EXCEPT !.columns = Atoi(last).n])
      ELSE IF has("NROWS")
        THEN IF Atoi(last).err THEN [r EXCEPT !.panic = TRUE]
             ELSE alloc([r EXCEPT !.rows = Atoi(last).n])
      ELSE IF Contains(str, <<"n", "o", "d", "a", "t", "a">>)
        THEN IF ParseFloat(last).err THEN [r EXCEPT !.panic = TRUE]
             ELSE [r EXCEPT !.nodata = ParseFloat(last).x]
      ELSE IF has("CELLSIZE")
        THEN IF ParseFloat(last).err THEN [r EXCEPT !.panic = TRUE]
             ELSE [r EXCEPT !.cellSize = ParseFloat(last).x]
      ELSE IF has("XLLCORNER")
        THEN IF ParseFloat(last).err THEN [r EXCEPT !.panic = TRUE]
             ELSE [r EXCEPT !.west = ParseFloat(last).x,
                            !.cellCornerMode = ParseFloat(last).x # Dec(0, 0)]
      ELSE IF has("YLLCORNER")
        THEN IF ParseFloat(last).err THEN [r EXCEPT !.panic = TRUE]
             ELSE [r EXCEPT !.south = ParseFloat(last).x]
      ELSE r

\* A data line of ReadFile: every word goes to the next cell, a word that
\* does not parse as 0; a word past the end of the data array panics.
RECURSIVE ReadDataLine(_, _, _)
ReadDataLine(r, s, cellNum) ==
  IF s = <<>> \/ r.panic THEN [r |-> r, cellNum |-> cellNum]
  ELSE IF cellNum >= Len(r.data)
    THEN [r |-> [r EXCEPT !.panic = TRUE], cellNum |-> cellNum]
  ELSE ReadDataLine([r EXCEPT !.data[cellNum + 1] = ParseFloat(Head(s)).x],
                    Tail(s), cellNum + 1)

\* The scan of ReadFile over the lines of the file.  scanner.Scan() returns
\* false at the end of the file and at a line that does not fit the buffer
\* of the scanner; scanner.Err() is not looked at.
RECURSIVE ReadLines(_, _, _, _)
ReadLines(lines, lineNum, cellNum, r) ==
  IF lineNum > Len(lines) \/ r.panic THEN r
  ELSE IF Len(LineText(lines[lineNum])) >= MaxScanTokenSize THEN r
  ELSE LET str == ToLower(LineText(lines[lineNum]))
       IN  IF lineNum <= 6
             THEN ReadLines(lines, lineNum + 1, cellNum, ReadHeaderLine(r, str))
           ELSE LET d == ReadDataLine(r, Fields(str), cellNum)
                IN  ReadLines(lines, lineNum + 1, d.cellNum, d.r)
ReadFile(fileName, lines) == ReadLines(lines, 1, 0, EmptyRaster(fileName))

\* The file a run may find at the output path: the raster of an earlier run.
StaleLines == SaveLines(InitializeRaster(outFile, 1, 1, Dec(0, 0), Dec(0, 0), Dec(1, 0)))

Exists(name) == name \in DOMAIN files
\* os.Remove that leaves the file where it is.
RemoveNothing(name) == files
Remove(name) == [f \in DOMAIN files \ {name} |-> files[f]]
WriteFile(name, lines) ==
  [f \in DOMAIN files \cup {name} |-> IF f = name THEN lines ELSE files[f]]

InitSave ==
  /\ tool = "save" /\ pc = "init"
  /\ dem = <<>> /\ flowdir = <<>>
  /\ FloodUnused /\ FlowUnused
  /\ call = <<>> /\ ret = <<>> /\ med = <<>> /\ rd = <<>>
  /\ bd = <<>> /\ post = <<>>
  /\ files \in {<<>>, [f \in {outFile} |-> StaleLines]}

\* raster.CreateNewRaster with a fresh default config: the format comes from
\* the extension of the file name, and InitializeRaster deletes a file found
\* at the output path.  removeOK: whether os.Remove succeeds.
SaveCreateNewRaster ==
  /\ tool = "save" /\ pc = "init"
  /\ \E g \in SaveGrids, src \in SourceFormats, removeOK \in BOOLEAN :
       LET f == [ext |-> ".asc", exists |-> Exists(outFile), contents |-> "arcgis"]
           c == CreateNewRaster(f, RT_UnknownRaster, removeOK \/ ~Exists(outFile))
       IN  /\ call' = [op |-> "TestWrite", g |-> g, src |-> src,
                       format |-> c.format]
           /\ IF c.result = "raster" /\ c.format = RT_ArcGisAsciiRaster
                THEN /\ pc' = "created"
                     /\ files' = Remove(outFile)
                     /\ rd' = InitializeRaster(outFile, g.rows, g.columns,
                                               Dec(0, 0), Dec(0, 0), Dec(1, 0))
                ELSE /\ pc' = "error"
                     /\ UNCHANGED <<files, rd>>
  /\ UNCHANGED <<tool, dem, flowdir, ret, med, bd, post, flowVars, floodAll>>

\* "for row ... for column ... rout.SetValue(row, column, z)"
SaveSetValues ==
  /\ tool = "save" /\ pc = "created"
  /\ pc' = "filled"
  /\ rd' = [rd EXCEPT !.data = [i \in 1 .. rd.numCells |-> call.g.data[i]]]
  /\ UNCHANGED <<tool, dem, flowdir, call, ret, med, files, bd, post, flowVars, floodAll>>

\* Save up to os.Create: a file at the output path is removed, then the
\* output file itself is created, empty.  rd.written counts its lines.
SaveCreateFile ==
  /\ tool = "save" /\ pc = "filled"
  /\ \E removeOK \in BOOLEAN, createOK \in BOOLEAN :
       IF Exists(outFile) /\ ~removeOK
         THEN pc' = "error" /\ UNCHANGED files
       ELSE IF ~createOK
         THEN pc' = "panic" /\ files' = Remove(outFile)
       ELSE pc' = "writing" /\ files' = WriteFile(outFile, <<>>)
  /\ UNCHANGED <<tool, dem, flowdir, call, ret, med, rd, bd, post, flowVars, floodAll>>

\* One more line of Save reaches the output file; after the last one the
\* writer is flushed and Save returns.
SaveWriteLine ==
  /\ tool = "save" /\ pc = "writing"
  /\ LET n == Len(files[outFile]) + 1
     IN  /\ files' = WriteFile(outFile, Append(files[outFile], SaveLines(rd)[n]))
         /\ pc' = IF n = Len(SaveLines(rd)) THEN "saved" ELSE "writing"
  /\ UNCHANGED <<tool, dem, flowdir, call, ret, med, rd, bd, post, flowVars, floodAll>>

\* The run ends part-way: the tool panics between creating the raster and
\* saving it, or a write of Save fails (only the first WriteString is
\* checked) or the process is stopped.
SaveFails ==
  /\ tool = "save" /\ pc \in {"created", "filled", "writing"}
  /\ pc' = "failed"
  /\ UNCHANGED <<tool, dem, flowdir, call, ret, med, files, rd, bd, post, flowVars, floodAll>>

\* raster.CreateRasterFromFile on the saved file: the format by the
\* extension, then SetFileName and ReadFile.
SaveReload ==
  /\ tool = "save" /\ pc = "saved"
  /\ LET f == [ext |-> ".asc", exists |-> Exists(outFile), contents |-> "arcgis"]
     IN  IF DetermineRasterFormat(f).rt = RT_ArcGisAsciiRaster
           THEN /\ ret' = ReadFile(outFile, files[outFile])
                /\ pc' = IF ret'.panic THEN "panic" ELSE "reloaded"
           ELSE /\ ret' = <<>>
                /\ pc' = "error"
  /\ UNCHANGED <<tool, dem, flowdir, call, med, files, rd, bd, post, flowVars, floodAll>>

NextSave ==
  \/ SaveCreateNewRaster \/ SaveSetValues \/ SaveCreateFile
  \/ SaveWriteLine \/ SaveFails \/ SaveReload
SpecSave == InitSave /\ [][NextSave]_vars

\* C11: a read off the grid returns nodata when reflection is off; with
\* reflection on it returns the value of the cell at the index mirrored
\* once (r < 0 becomes -r-1, r >= n becomes n-(r-n)-1), or nodata when the
\* index mirrored once is still off the grid.
C11_OffGridReads ==
  (call # <<>> /\ call.op \in {"Raster.Value", "Array.Value"}
     /\ ~InRaster(call.r.Rows, call.r.Columns, call.row, call.column)) =>
    IF call.op = "Array.Value" \/ ~call.r.reflectAtBoundaries
      THEN ret = NoData
      ELSE LET once(n, i) == IF i < 0 THEN 0 - i - 1
                             ELSE IF i >= n THEN n - (i - n) - 1 ELSE i
               row == once(call.r.Rows, call.row)
               column == once(call.r.Columns, call.column)
           IN  ret = IF InRaster(call.r.Rows, call.r.Columns, row, column)
                       THEN call.r.data[row * call.r.Columns + column]
                       ELSE NoData

\* C12: for a valid cell and a radius, the count and the sum taken from the
\* integral images equal the count and the sum over the window of rows
\* max(0, r-R) .. min(rows-1, r+R) and columns max(0, c-R) .. min(cols-1, c+R).
C12_BoxEqualsDirectWindow ==
  (call # <<>> /\ call.op \in {"DeviationFromMean", "MaximumElevationDeviation"}) =>
    LET g == call.g
        lo(i) == IF i - call.size < 0 THEN 0 ELSE i - call.size
        hi(i, n) == IF i + call.size > n - 1 THEN n - 1 ELSE i + call.size
        window == {p \in DOMAIN g.z :
                     /\ p[1] >= lo(call.row) /\ p[1] <= hi(call.row, g.rows)
                     /\ p[2] >= lo(call.col) /\ p[2] <= hi(call.col, g.columns)}
        direct[S \in SUBSET window] ==
          IF S = {} THEN 0
          ELSE LET p == CHOOSE q \in S : TRUE
               IN  Centred(g, p) + direct[S \ {p}]
    IN  /\ ret.N = Cardinality(window \cap BoxValid(g))
        /\ ret.sum = direct[window]

\* C13: for a file that does not exist and whose extension belongs to more
\* than one format, DetermineRasterFormat returns the first of these formats
\* with MultipleRasterFormatError, and CreateNewRaster (no format in the
\* configuration) goes on with that format: it returns a raster whenever
\* the format's InitializeRaster succeeds, and never the warning.
C13_AmbiguousNewFileTakesFirst ==
  (call # <<>> /\ call.op \in {"DetermineRasterFormat", "CreateNewRaster"}
     /\ ~call.f.exists /\ Len(FormatList(call.f.ext, 0)) > 1) =>
    LET first == FormatList(call.f.ext, 0)[1]
    IN  IF call.op = "DetermineRasterFormat"
          THEN ret = [rt |-> first, err |-> "MultipleRasterFormatError"]
          ELSE call.rasterFormat = RT_UnknownRaster =>
                 /\ ret.format = first
                 /\ ret.warning = "MultipleRasterFormatError"
                 /\ ret.result = IF call.initOK THEN "raster"
                                 ELSE "RasterInitializationError"

\* A raster created at a new .txt path, in the ArcGIS ASCII format.
C13_Witness ==
  /\ call # <<>> /\ call.op = "CreateNewRaster"
  /\ call.f.ext = ".txt" /\ ~call.f.exists
  /\ call.rasterFormat = RT_UnknownRaster
  /\ ret.format = RT_ArcGisAsciiRaster /\ ret.result = "raster"

\* C15: on every raster with at least one row, a single-row raster
\* included, the row scans of the tool cores run to their end without a
\* run-time panic.
C15_RowScanNeverPanics ==
  (call # <<>> /\ call.op = "RowScan") => ~ret.panic

C17_ScaleIsSignedRadiusOfLargest ==
  (tool = "med" /\ pc = "done") =>
    \A p \in BoxValid(med.g) :
      LET dev(r) == MedDeviation(med.g, p, r)
          tested == {r \in MedNeighbourhoods : dev(r).ok}
          largest == {r \in tested :
                        \A q \in tested :
                          dev(q).sq.n * dev(r).sq.d <= dev(r).sq.n * dev(q).sq.d}
      IN  tested # {} =>
            \E r \in largest :
              med.rout2[p] = IF dev(r).neg THEN 0 - r ELSE r

\* C18: no variable of a row-partitioned parallel tool is written by one
\* worker and read or written by another.
C18_WorkersShareNoVariable ==
  (tool = "med" /\ pc # "init") =>
    \A a \in med.access, b \in med.access : a[1] = b[1] => a[2] = b[2]

\* C19: breaching the 3x3 DEM [[10,10,10],[10,1,10],[10,10,10]] leaves the
\* centre cell at 10 - SMALL_NUM, and every cell of the result has a
\* strictly lower neighbour or a nodata neighbour.
C19_TrivialPitBreached ==
  (tool = "breach" /\ dem = TrivialPitDEM /\ pc = "done") =>
    /\ output[<<3, 2>>] = 10 * TrivialPitMultiplier * Scale - BreachSmallNum
    /\ EveryCellDrains(output)

\* The breaching run on the 3x3 DEM has ended, its pit solved.
C19_Witness ==
  /\ tool = "breach" /\ dem = TrivialPitDEM /\ pc = "done"
  /\ numPits = 1 /\ numPitsSolved = 1

\* C20: on the 1x5 DEM [5,4,3,2,1] the D8 run gives every cell but (0,4)
\* the east direction, gives (0,4) none, and ends with the accumulation
\* [1,2,3,4,5].
C20_StripAccumulates ==
  (call # <<>> /\ call.op = "D8FlowAccumulation"
     /\ call.rows = 1 /\ call.columns = 5) =>
    /\ ~ret.panic
    /\ \A col \in 0 .. 4 :
         /\ ret.flowdir[<<0, col>>] = IF col = 4 THEN 0 ELSE 2
         /\ ret.accumulation[<<0, col>>] = col + 1

\* C21: a grid written cell by cell into a newly created raster, saved and
\* reloaded from the same file reads back with every cell equal to the value
\* written, whatever format the source of the values was loaded from.
C21_SaveReloadRoundTrip ==
  (tool = "save" /\ ret # <<>>) =>
    /\ ~ret.panic
    /\ ret.rows = call.g.rows /\ ret.columns = call.g.columns
    /\ \A row \in 0 .. call.g.rows - 1, column \in 0 .. call.g.columns - 1 :
         ret.data[row * ret.columns + column + 1]
           = call.g.data[row * call.g.columns + column + 1]

\* C22 as stated: a save goes to a temporary file that is swapped into place,
\* so a save or tool run that fails part-way leaves no partial output file:
\* what is at the output path after a failure is the whole new file.
C22_NoPartialOutputFile ==
  (tool = "save" /\ pc = "failed" /\ Exists(outFile)) =>
    files[outFile] = SaveLines(rd)

\* C22 (amended): creating the raster removes the file at the output path,
\* and Save writes the output file in place, with no temporary file: from
\* then on whatever is at the output path is the lines of the new file
\* written so far, and after a failure these may be only part of it.
C22_SaveWritesInPlace ==
  (tool = "save" /\ rd # <<>>) =>
    /\ DOMAIN files \subseteq {outFile}
    /\ Exists(outFile) =>
         /\ Len(files[outFile]) <= Len(SaveLines(rd))
         /\ files[outFile] = SubSeq(SaveLines(rd), 1, Len(files[outFile]))
    /\ pc = "saved" => Exists(outFile) /\ files[outFile] = SaveLines(rd)
C22_Witness ==
  /\ tool = "save" /\ pc = "failed" /\ Exists(outFile)
  /\ Len(files[outFile]) > 6
  /\ Len(files[outFile]) < Len(SaveLines(rd))

\* C23: when BreachDepressions is run from an argument list, its sixth
\* argument, SubsequentFilling, decides whether the post-breach filling is
\* performed: with it true and a pit left unbreached the filling pass runs,
\* with it false the pass does not run.
C23_SixthArgumentDecidesFilling ==
  (call # <<>> /\ call.op = "ParseArguments" /\ ret.this.ran) =>
    (ret.filling <=>
       (ParseBool(call.args.SubsequentFilling).b /\ call.needsFilling))

\* C24: a structures.PQueue created with MINPQ pops its items in ascending
\* order of priority, one created with MAXPQ in descending order.
C24_PopOrderFollowsKind ==
  (call # <<>> /\ call.op = "structures.PQueue") =>
    \A i \in 1 .. Len(ret) - 1 :
      IF call.pqType = MINPQ THEN ret[i] <= ret[i + 1]
      ELSE ret[i] >= ret[i + 1]

\* C25: at the end of the initialisation of a filling or breaching run every
\* edge cell (a valid cell with a nodata or off-grid 8-neighbour) is in the
\* queue with flatIndex 0 and the priority key of its own elevation.
C25_EdgeCellsPushedWithOwnKey ==
  (tool \in {"fill", "breach", "streams"} /\ pc = "loop" /\ popLog = <<>>) =>
    \A c \in Cells :
      (dem[c] # NoData
         /\ \E n \in 1 .. 8 : Value(dem, c[1] + dY[n], c[2] + dX[n]) = NoData) =>
        \E k \in 1 .. pq.elemsCount :
          /\ pq.items[k].value =
               IF tool = "fill" THEN newGridCell(c[1], c[2], 0)
               ELSE newGridCell(c[1] + 1, c[2] + 1, 0)
          /\ pq.items[k].priority =
               IF tool = "streams"
                 THEN StreamPriority(dem[c], 0,
                                     IsStream(StreamsValue(streams, c[1], c[2])))
                 ELSE Priority(dem[c], 0)

\* C26: in a filling step every valid neighbour of the popped cell that was
\* not yet queued is pushed; one whose input elevation is at most the popped
\* cell's output elevation is set to exactly that output plus epsilon and
\* gets the popped cell's flatIndex plus one, any other keeps its input
\* elevation and gets flatIndex 0.  Epsilon is 1/elevMultiplier (Scale
\* sub-units) with fixFlats, 0 without.
C26_FillNeighbourRule ==
  [][(tool = "fill" /\ pc = "loop" /\ pc' = "loop") =>
       LET gc == PopItem(pq).value
           z == output[<<gc.row + 1, gc.column + 1>>]
           epsilon == IF fixFlats THEN Scale ELSE 0
       IN  \A i \in 1 .. 8 :
             LET rowN == gc.row + dY[i]
                 colN == gc.column + dX[i]
                 rc == <<rowN + 1, colN + 1>>
             IN  (InGrid(rowN, colN) /\ dem[<<rowN, colN>>] # NoData
                    /\ ~inQueue[rc]) =>
                   /\ inQueue'[rc]
                   /\ output'[rc] = IF dem[<<rowN, colN>>] <= z THEN z + epsilon
                                    ELSE dem[<<rowN, colN>>]
                   /\ \E k \in 1 .. pq'.elemsCount :
                        /\ pq'.items[k].seq >= pushCount
                        /\ pq'.items[k].value =
                             newGridCell(rowN, colN,
                                         IF dem[<<rowN, colN>>] <= z
                                           THEN gc.flatIndex + 1 ELSE 0)]_vars
\* A filling run with fixFlats has queued a cell raised along a flat for the
\* second time in a row: its flatIndex is 2 and its output is above its input.
C26_Witness ==
  /\ tool = "fill" /\ fixFlats
  /\ \E k \in 1 .. pq.elemsCount :
       /\ pq.items[k].value.flatIndex = 2
       /\ output[<<pq.items[k].value.row + 1, pq.items[k].value.column + 1>>]
            > dem[<<pq.items[k].value.row, pq.items[k].value.column>>]

\* The outputs in out fall strictly at every step of the backlink path from
\* (r, c), up to the first cell that the step left as it was in before (the
\* cell at which the trace stopped), a nodata cell or a root.
RECURSIVE PathDescends(_, _, _, _, _)
PathDescends(out, fd, before, r, c) ==
  LET dir == fd[<<r, c>>]
      r2 == r + dY[dir]
      c2 == c + dX[dir]
  IN  IF dir = 0 THEN TRUE
      ELSE IF out[<<r2, c2>>] = NoData THEN TRUE
      ELSE /\ out[<<r2, c2>>] < out[<<r, c>>]
           /\ IF out[<<r2, c2>>] = before[<<r2, c2>>] THEN TRUE
              ELSE PathDescends(out, fd, before, r2, c2)

\* C27: after the breach trace for a pit, the output elevations along the
\* backlink path from the pit fall strictly step by step up to the cell at
\* which the trace stopped.
C27_BreachPathStrictlyDecreasing ==
  [][(tool = "breach" /\ pc = "loop" /\ pc' = "loop") =>
       \A rc \in PaddedCells :
         (pits[rc] /\ ~inQueue[rc] /\ inQueue'[rc]) =>
           PathDescends(output', flowdir', output, rc[1], rc[2])]_vars
\* A pit has been traced and the two cells behind it on its backlink path
\* were both lowered, each below the one before it.
C27_Witness ==
  /\ tool = "breach"
  /\ \E rc \in PaddedCells :
       /\ pits[rc] /\ inQueue[rc] /\ flowdir[rc] > 0
       /\ LET p1 == <<rc[1] + dY[flowdir[rc]], rc[2] + dX[flowdir[rc]]>>
          IN  /\ flowdir[p1] > 0
              /\ LET p2 == <<p1[1] + dY[flowdir[p1]], p1[2] + dX[flowdir[p1]]>>
                 IN  /\ output[p1] < dem[<<p1[1] - 1, p1[2] - 1>>]
                     /\ output[p2] < dem[<<p2[1] - 1, p2[2] - 1>>]
                     /\ output[rc] > output[p1] /\ output[p1] > output[p2]

\* Ghost record e of a traced pit: some output cell was changed for it.
PitChanged(e) ==
  e.offPath \/ \E j \in 1 .. Len(e.path) : e.after[j] # e.before[j]

\* C28: in selective breaching the output is changed for a pit only when the
\* dry run's path length is at most maxLength and its greatest depth at most
\* maxDepth; for any other pit no output cell is changed and needsFilling is
\* set.
C28_SelectiveCommitsWithinLimits ==
  (tool = "breachlimits" /\ ~performConstrainedBreaching(bd)) =>
    \A k \in 1 .. Len(post.log) :
      LET e == post.log[k]
          inside == e.numCellsInPath <= bd.maxLength
                      /\ e.maxPathBreachDepth <= bd.maxDepth
      IN  /\ PitChanged(e) => inside
          /\ ~inside => (~PitChanged(e) /\ post.needsFilling)
\* A selective run has left one pit unbreached whose trace would have cut
\* into the surface, and has written the trace of another.
C28_Witness ==
  /\ tool = "breachlimits" /\ ~performConstrainedBreaching(bd)
  /\ \E k \in 1 .. Len(post.log) :
       /\ post.log[k].maxPathBreachDepth > 0
       /\ ~(post.log[k].numCellsInPath <= bd.maxLength
            /\ post.log[k].maxPathBreachDepth <= bd.maxDepth)
  /\ \E k \in 1 .. Len(post.log) : PitChanged(post.log[k])

\* C29: in constrained breaching, for a pit that passes a limit, every cell
\* that is changed lies on the backlink path of the pit at most targetDist
\* steps from it, had an output above zTest, and is not lowered below the
\* outlet height less maxDepth.
C29_ConstrainedBreachBounds ==
  (tool = "breachlimits" /\ performConstrainedBreaching(bd)) =>
    \A k \in 1 .. Len(post.log) :
      LET e == post.log[k]
      IN  ~(e.numCellsInPath <= bd.maxLength
              /\ e.maxPathBreachDepth <= bd.maxDepth) =>
            /\ ~e.offPath
            /\ \A j \in 1 .. Len(e.path) :
                 e.after[j] # e.before[j] =>
                   /\ e.after[j] >= e.outletHeight - bd.maxDepth
                   /\ e.before[j] > e.zTest
                   /\ j <= e.targetDist

\* C30: the filling pass after breaching handles, at its step c, the cell
\* popped c-th by the main loop and no other, raising it to the output of the
\* cell its backlink points to plus SMALL_NUM if it is not above that; after
\* its last step every valid cell with a backlink has an output of at least
\* that of the cell the backlink points to plus SMALL_NUM.
C30_PostFillFollowsPopOrder ==
  [][(tool = "breachlimits" /\ pc = "fill" /\ pc' = "fill") =>
       /\ post.c + 1 <= Len(popLog)
       /\ LET gc == popLog[post.c + 1].value
              rc == <<gc.row, gc.column>>
              dir == flowdir[rc]
              zN == output[<<rc[1] + dY[dir], rc[2] + dX[dir]>>]
          IN  output' = IF dir > 0 /\ zN # NoData /\ output[rc] <= zN + 10 * Scale
                          THEN [output EXCEPT ![rc] = zN + 10 * Scale]
                          ELSE output
       /\ post'.c = Len(popLog) =>
            \A rc \in PaddedCells :
              (output'[rc] # NoData /\ flowdir[rc] > 0) =>
                output'[rc] >=
                  output'[<<rc[1] + dY[flowdir[rc]], rc[2] + dX[flowdir[rc]]>>]
                    + 10 * Scale]_vars
\* A run has ended after a filling pass that raised a cell that is no pit
\* above its input elevation.
C30_Witness ==
  /\ tool = "breachlimits" /\ pc = "done"
  /\ post.needsFilling /\ bd.postBreachFilling /\ post.c = Len(popLog)
  /\ \E rc \in (1 .. Rows) \X (1 .. Cols) :
       /\ ~pits[rc] /\ flowdir[rc] > 0
       /\ output[rc] > dem[<<rc[1] - 1, rc[2] - 1>>]

\* The queued cell gc (bordered indices) is a stream cell.
StreamCell(gc) == IsStream(StreamsValue(streams, gc.row - 1, gc.column - 1))

\* C31: in stream-aware breaching a pop never returns a non-stream cell
\* while a stream cell is held in the queue.
C31_StreamCellsPopFirst ==
  (tool = "streams" /\ popLog # <<>>) =>
    ((\E it \in heldAtPop : StreamCell(it.value)) => StreamCell(LastPop.value))
\* A stream cell was popped while the queue held a non-stream cell of lower
\* input elevation.
C31_Witness ==
  /\ tool = "streams" /\ popLog # <<>>
  /\ StreamCell(LastPop.value)
  /\ \E it \in heldAtPop :
       /\ ~StreamCell(it.value)
       /\ dem[<<it.value.row - 1, it.value.column - 1>>]
            < dem[<<LastPop.value.row - 1, LastPop.value.column - 1>>]

\* The lowest output among the valid non-stream neighbours of the cell at
\* the bordered indices (r, c), stream membership being read at each
\* neighbour's own position of the stream grid.
RECURSIVE OwnLowestNonStream(_, _, _, _, _)
OwnLowestNonStream(out, r, c, n, lowest) ==
  IF n > 8 THEN lowest
  ELSE
    LET sN == StreamsValue(streams, r - 1 + dY[n], c - 1 + dX[n])
        zN3 == out[<<r + dY[n], c + dX[n]>>]
    IN  OwnLowestNonStream(out, r, c, n + 1,
          IF ~IsStream(sN) /\ zN3 # NoData /\ zN3 < lowest THEN zN3 ELSE lowest)

\* The trace that caps zTest at every walked stream cell, the walked cell
\* being looked up at its own position of the stream grid.
RECURSIVE OwnPositionTrace(_, _, _, _, _)
OwnPositionTrace(out, fd, r, c, zTest) ==
  LET zT0 == zTest - 10 * Scale
      lowest == OwnLowestNonStream(out, r, c, 1, POS_INF)
      zT == IF IsStream(StreamsValue(streams, r - 1, c - 1)) /\ lowest < zT0
              THEN lowest - 10 * Scale ELSE zT0
      dir == fd[<<r, c>>]
      r2 == r + dY[dir]
      c2 == c + dX[dir]
  IN  IF dir = 0 THEN out
      ELSE IF out[<<r2, c2>>] <= zT \/ out[<<r2, c2>>] = NoData THEN out
      ELSE OwnPositionTrace([out EXCEPT ![<<r2, c2>>] = zT], fd, r2, c2, zT)

\* C32: a step of stream-aware breaching that finds one pit leaves the
\* output that the trace from that pit gives when, at every walked stream
\* cell, zTest is capped at the lowest output of that cell's valid
\* non-stream neighbours less SMALL_NUM, stream membership being read at the
\* walked cell's own position.
C32_TraceCapsAtOwnPosition ==
  [][(tool = "streams" /\ pc = "loop" /\ pc' = "loop") =>
       \A rc \in PaddedCells :
         ({p \in PaddedCells : pits[p] /\ ~inQueue[p] /\ inQueue'[p]} = {rc}) =>
           output' = OwnPositionTrace(output, flowdir', rc[1], rc[2], output[rc])]_vars

\* "v = (sumSqr - (sum*sum)/float64(N)) / float64(N)" is not above 0 for the
\* cell p at the neighbourhood n, taken as one goroutine alone computes it.
MedVarianceNotPositive(g, p, n) ==
  LET b == BoxCorners("MaximumElevationDeviation", g, p[1], p[2], n)
  IN  /\ BoxN(g, b) > 0
      /\ BoxN(g, b) * BoxSumSqr(g, b) - BoxSum(g, b) * BoxSum(g, b) <= 0

\* C33: a valid cell whose variance is not above 0 at the neighbourhoods of
\* the run has the deviation 0 in the magnitude raster of
\* MaximumElevationDeviation, not nodata.
C33_NonPositiveVarianceEmitsZero ==
  (tool = "med" /\ pc = "done") =>
    \A p \in DOMAIN med.g.z :
      (/\ med.g.z[p] # NoData
       /\ \A n \in MedNeighbourhoods : MedVarianceNotPositive(med.g, p, n)) =>
        (~med.rout1[p].nodata /\ med.rout1[p].sq.n = 0)

\* Every item pushed so far: those popped and those still held.
PushedItems == {popLog[i] : i \in 1 .. Len(popLog)} \cup HeldItems(pq)
\* The cell of the input raster an item stands for: FillDepressions queues
\* the raster's own indices, the breaching tools those of the bordered
\* arrays.
PushedCell(it) ==
  IF tool = "fill" THEN <<it.value.row, it.value.column>>
  ELSE <<it.value.row - 1, it.value.column - 1>>
TimesPushed(c) == Cardinality({it \in PushedItems : PushedCell(it) = c})

\* C34: in a filling or breaching run each valid cell has been pushed at
\* most once, no other cell has been pushed, and once the loop has left the
\* queue empty each valid cell has been pushed exactly once.
C34_EachValidCellPushedOnce ==
  (tool \in {"fill", "breach", "streams", "breachlimits"}) =>
    /\ Cardinality(PushedItems) = pushCount
    /\ \A it \in PushedItems : PushedCell(it) \in Cells /\ dem[PushedCell(it)] # NoData
    /\ \A c \in Cells : TimesPushed(c) <= 1
    /\ (pc \in {"loop", "fill", "done"} /\ pq.elemsCount = 0) =>
         \A c \in Cells : dem[c] # NoData => TimesPushed(c) = 1
\* A run has drained its queue, having popped every cell of the raster.
C34_Witness ==
  /\ tool = "breachlimits" /\ pc = "done" /\ pq.elemsCount = 0
  /\ Len(popLog) = Rows * Cols
  /\ \A c \in Cells : TimesPushed(c) = 1

\* A valid cell with a nodata 8-neighbour, cells beyond the raster counting
\* as nodata.
IsEdgeCell(c) ==
  /\ dem[c] # NoData
  /\ \E n \in 1 .. 8 : Value(dem, c[1] + dY[n], c[2] + dX[n]) = NoData
\* One relaxation of the spill levels f: an edge cell spills at its own
\* elevation, any other valid cell at the higher of its own elevation and
\* the lowest spill level among its 8-neighbours.
SpillRelax(f) ==
  [c \in Cells |->
     IF dem[c] = NoData THEN NoData
     ELSE IF IsEdgeCell(c) THEN dem[c]
     ELSE LET ns == {f[Neighbour(c, n)] : n \in 1 .. 8} \ {NoData}
              low == CHOOSE v \in ns : \A w \in ns : v <= w
          IN  IF low > dem[c] THEN low ELSE dem[c]]
RECURSIVE SpillIterate(_, _)
SpillIterate(f, k) == IF k = 0 THEN f ELSE SpillIterate(SpillRelax(f), k - 1)
\* The least, over the 8-connected paths of valid cells from a cell to an
\* edge cell, of the highest input elevation on the path.
SpillLevel ==
  SpillIterate([c \in Cells |-> IF dem[c] = NoData THEN NoData ELSE POS_INF],
               Rows * Cols)

\* C35: with fixFlats off the output of FillDepressions is, at every valid
\* cell, the least over the paths to an edge cell of the highest input
\* elevation on the path.
C35_FillIsMinimaxSpill ==
  (tool = "fill" /\ ~fixFlats /\ pc = "done") =>
    \A c \in Cells :
      dem[c] # NoData => RoutValue(output, c[1], c[2]) = SpillLevel[c]

\* Following the backlinks from the bordered cell rc ends, within k steps,
\* at a root (flowdir 0) or at a nodata cell.
RECURSIVE BacklinksEnd(_, _)
BacklinksEnd(rc, k) ==
  IF flowdir[rc] = 0 \/ output[rc] = NoData THEN TRUE
  ELSE IF k = 0 THEN FALSE
  ELSE BacklinksEnd(<<rc[1] + dY[flowdir[rc]], rc[2] + dX[flowdir[rc]]>>, k - 1)
\* The number of backlinks between the bordered cell rc and its root.
RECURSIVE BacklinkSteps(_)
BacklinkSteps(rc) ==
  IF flowdir[rc] = 0 \/ output[rc] = NoData THEN 0
  ELSE 1 + BacklinkSteps(<<rc[1] + dY[flowdir[rc]], rc[2] + dX[flowdir[rc]]>>)

\* C36: in every breaching run the backlinks never form a cycle: from any
\* cell they lead to a root or to a nodata cell in fewer steps than the
\* raster has cells.
C36_BacklinksReachRoot ==
  (tool \in {"breach", "streams", "breachlimits"}) =>
    \A rc \in (1 .. Rows) \X (1 .. Cols) : BacklinksEnd(rc, Rows * Cols - 1)
\* A pit has been traced whose backlinks pass two cells before the root.
C36_Witness ==
  /\ tool \in {"breach", "streams", "breachlimits"}
  /\ C36_BacklinksReachRoot
  /\ \E rc \in (1 .. Rows) \X (1 .. Cols) :
       pits[rc] /\ inQueue[rc] /\ BacklinkSteps(rc) >= 3

\* The messages the workers of the running pass have sent on c1 so far: one
\* for each row a worker has finished.
RECURSIVE MedSent(_)
MedSent(j) ==
  IF j = 0 THEN 0 ELSE (med.w[j].row - med.w[j].rowSt) + MedSent(j - 1)

\* C37: in each pass of MaximumElevationDeviation the messages sent on c1
\* are those the coordinator has received; a worker with a row still to
\* report finds the coordinator short of `rows` receipts, and once every
\* worker has finished the coordinator has received exactly `rows`.
C37_ProgressMessagesMatchRows ==
  (tool = "med" /\ pc = "run") =>
    /\ MedSent(Len(med.w)) = med.rowsCompleted
    /\ (\E j \in DOMAIN med.w : med.w[j].pc # "done") =>
         med.rowsCompleted < med.g.rows
    /\ (\A j \in DOMAIN med.w : med.w[j].pc = "done") =>
         med.rowsCompleted = med.g.rows
\* The pass of the last neighbourhood has ended: several workers have sent
\* the messages between them and the coordinator has received one a row.
C37_Witness ==
  /\ tool = "med" /\ pc = "run" /\ med.neighbourhood = maxNeighbourhood
  /\ Len(med.w) >= 2
  /\ \A j \in DOMAIN med.w : med.w[j].pc = "done" /\ med.w[j].row > med.w[j].rowSt
  /\ med.rowsCompleted = med.g.rows

\* C38: a call of CreateRasterFromFile or CreateNewRaster with no format
\* in the config, for a file name DetermineRasterFormat finds no format
\* for, returns an error that is not nil: it neither returns nil with a
\* raster that has no backend nor panics.
C38_UndeterminedFormatIsAnError ==
  (/\ call # <<>> /\ call.op \in {"CreateRasterFromFile", "CreateNewRaster"}
   /\ call.rasterFormat = RT_UnknownRaster
   /\ DetermineRasterFormat(call.f).rt = RT_UnknownRaster) =>
    ret.result \notin {"nil", "raster", "panic"}

\* C39: the row partition gives every row 0 .. rows-1 to exactly one
\* worker, gives no worker a row beyond these, and starts at most numCPUs
\* workers, so that every worker index k = 0, 1, ... is an index of the
\* queue group of numCPUs queues.
C39_RowPartitionCoversRowsOnce ==
  (call # <<>> /\ call.op = "RowPartition") =>
    /\ \A row \in 0 .. call.rows - 1 :
         Cardinality({j \in DOMAIN ret :
                        ret[j].rowSt <= row /\ row <= ret[j].rowEnd}) = 1
    /\ \A j \in DOMAIN ret :
         0 <= ret[j].rowSt /\ ret[j].rowSt <= ret[j].rowEnd
           /\ ret[j].rowEnd <= call.rows - 1
    /\ Len(ret) <= call.numCPUs
    /\ \A j \in DOMAIN ret : j - 1 \in 0 .. call.numCPUs - 1
\* A partition of rows that numCPUs does not divide, with a last block
\* shorter than the others.
C39_Witness ==
  /\ call # <<>> /\ call.op = "RowPartition"
  /\ call.rows % call.numCPUs # 0 /\ call.rows > call.numCPUs
  /\ Len(ret) >= 2
  /\ ret[Len(ret)].rowEnd - ret[Len(ret)].rowSt < ret[1].rowEnd - ret[1].rowSt

\* C40: every flood-order entry recorded so far decodes, by the quotient
\* and the remainder of the division by columns, to the row and the column
\* of the cell that was popped when it was recorded.
C40_FloodOrderDecodesToPoppedCell ==
  (tool = "breachlimits" /\ pc \in {"loop", "fill", "done"}
     /\ bd.postBreachFilling) =>
    \A k \in 1 .. post.floodOrderTail :
      /\ FloodOrderRow(post.floodorder[k]) = popLog[k].value.row
      /\ FloodOrderCol(post.floodorder[k]) = popLog[k].value.column
====
